---------------------------- MODULE Spec2Model ----------------------------
(***************************************************************************)
(* Model of the natural-language appointment extraction pipeline:          *)
(*   sendToAtlas               (atlasClient, src/unnamed/part_000)         *)
(*   extractAppointmentsJSON, isRateLimitError, isHospitalAppointment,     *)
(*   mapTypeToPriority, convertAtlasToAppointment, handleAiSubmit          *)
(*                             (App, src/unnamed/part_001)                 *)
(*   useAppointments store     (src/src/store/useAppointments.ts)          *)
(*                                                                         *)
(* Text.  A JavaScript string is a sequence of elements.  An element of    *)
(* one character is that character.  An element of several characters is   *)
(* an opaque run of letters (an Arabic phrase of a fixed message, written  *)
(* in transliteration, or a word of such a message) in which no substring  *)
(* the program searches for occurs, begins or ends, and which lower-casing *)
(* leaves unchanged; a property name of an object, in a value or in a JSON *)
(* text, is one such element.  BackQuote stands for the grave accent.      *)
(*                                                                         *)
(* Values.  A JavaScript value is a record tagged by t: undefined, null,   *)
(* bool, num, str, arr (a sequence of values) or obj (a sequence of        *)
(* <<key, value>> pairs in source order).                                  *)
(***************************************************************************)
EXTENDS Integers, Sequences, FiniteSets, TLC

(***************************************************************************)
(* Digits                                                                  *)
(***************************************************************************)
Digits == <<"0", "1", "2", "3", "4", "5", "6", "7", "8", "9">>

IsDigit(c) == \E d \in 1..10 : Digits[d] = c

DigitVal(c) == (CHOOSE d \in 1..10 : Digits[d] = c) - 1

RECURSIVE NatToStr(_)
\* Number.prototype.toString of a natural number
NatToStr(n) ==
  IF n < 10 THEN <<Digits[n + 1]>> ELSE NatToStr(n \div 10) \o <<Digits[(n % 10) + 1]>>

IntToStr(n) == IF n < 0 THEN <<"-">> \o NatToStr(0 - n) ELSE NatToStr(n)

(***************************************************************************)
(* JavaScript values                                                       *)
(***************************************************************************)
Undefined == [t |-> "undefined"]

Null == [t |-> "null"]

JBool(b) == [t |-> "bool", b |-> b]

JNum(n) == [t |-> "num", n |-> n]

JStr(s) == [t |-> "str", s |-> s]

JArr(a) == [t |-> "arr", a |-> a]

JObj(o) == [t |-> "obj", o |-> o]

\* x == null || x === undefined : the test behind ?? and ?.
IsNullish(v) == v.t \in {"undefined", "null"}

\* ToBoolean: undefined, null, false, 0 and "" are falsy.
Truthy(v) ==
  CASE v.t \in {"undefined", "null"} -> FALSE
    [] v.t = "bool" -> v.b
    [] v.t = "num" -> v.n # 0
    [] v.t = "str" -> v.s # << >>
    [] OTHER -> TRUE

SeqMin(S) == CHOOSE m \in S : \A n \in S : m <= n

\* The least j of lo..hi with P(j), or hi + 1 when there is none.
First(lo, hi, P(_)) ==
  CHOOSE j \in lo..(hi + 1) : (j = hi + 1 \/ P(j)) /\ \A k \in lo..(j - 1) : ~P(k)

SeqMax(S) == CHOOSE m \in S : \A n \in S : m >= n

\* const x = v; F(x)
Bind(v, F(_)) == F(v)

\* v[key] for a value that is neither null nor undefined.  An object gives
\* its own property (the last pair of that key: JSON.parse keeps the last
\* duplicate); a string and an array give their length; nothing else of the
\* prototypes is a data property the program reads.
GetProp(v, key) ==
  CASE v.t = "obj" ->
         LET hits == {i \in 1..Len(v.o) : v.o[i][1] = key}
         IN  IF hits = {} THEN Undefined ELSE v.o[SeqMax(hits)][2]
    [] v.t = "str" /\ key = <<"length">> -> JNum(Len(v.s))
    [] v.t = "arr" /\ key = <<"length">> -> JNum(Len(v.a))
    [] OTHER -> Undefined

\* v[n] for a value that is neither null nor undefined
GetIndex(v, n) ==
  CASE v.t = "arr" -> IF n + 1 <= Len(v.a) THEN v.a[n + 1] ELSE Undefined
    [] v.t = "str" -> IF n + 1 <= Len(v.s) THEN JStr(<<v.s[n + 1]>>) ELSE Undefined
    [] v.t = "obj" -> GetProp(v, NatToStr(n))
    [] OTHER -> Undefined

\* v?.key and v?.[n]
OptProp(v, key) == IF IsNullish(v) THEN Undefined ELSE GetProp(v, key)

OptIndex(v, n) == IF IsNullish(v) THEN Undefined ELSE GetIndex(v, n)

\* a || b, a && b, a ?? b
JsOr(a, b) == IF Truthy(a) THEN a ELSE b

JsAnd(a, b) == IF Truthy(a) THEN b ELSE a

Coalesce(a, b) == IF IsNullish(a) THEN b ELSE a

(***************************************************************************)
(* String primitives                                                       *)
(***************************************************************************)
\* The characters \s matches and trim() strips.
WhiteSpace == {" ", "\n", "\t", "\r"}

UpperChars ==
  <<"A", "B", "C", "D", "E", "F", "G", "H", "I", "J", "K", "L", "M",
    "N", "O", "P", "Q", "R", "S", "T", "U", "V", "W", "X", "Y", "Z">>

LowerChars ==
  <<"a", "b", "c", "d", "e", "f", "g", "h", "i", "j", "k", "l", "m",
    "n", "o", "p", "q", "r", "s", "t", "u", "v", "w", "x", "y", "z">>

LowerChar(c) ==
  IF \E i \in 1..26 : UpperChars[i] = c
    THEN LowerChars[CHOOSE i \in 1..26 : UpperChars[i] = c]
    ELSE c

\* String.prototype.toLowerCase
ToLowerCase(s) == [i \in 1..Len(s) |-> LowerChar(s[i])]

\* needle occurs in s at index i (1-based)
MatchAt(s, i, needle) ==
  /\ i >= 1
  /\ i + Len(needle) - 1 <= Len(s)
  /\ \A k \in 1..Len(needle) : s[i + k - 1] = needle[k]

\* String.prototype.includes
Includes(s, needle) == \E i \in 1..(Len(s) + 1) : MatchAt(s, i, needle)

\* String.prototype.trim
Trim(s) ==
  LET keep == {i \in 1..Len(s) : s[i] \notin WhiteSpace}
  IN  IF keep = {} THEN << >> ELSE SubSeq(s, SeqMin(keep), SeqMax(keep))

\* String.prototype.slice(0, n)
SliceTo(s, n) == SubSeq(s, 1, IF Len(s) < n THEN Len(s) ELSE n)

\* Index of the first element at or after i that is not white space
\* (Len(s) + 1 when there is none).
SkipWs(s, i) == First(i, Len(s), LAMBDA j : s[j] \notin WhiteSpace)

(***************************************************************************)
(* JSON.parse: objects, arrays, strings (escapes \" \\ \/ \n \t), integers *)
(* and the three literals; white space between tokens; the whole text must *)
(* be one value.  A result is [ok, v, i]: the value and the index after it.*)
(***************************************************************************)
ParseFail == [ok |-> FALSE]

ParseOk(v, i) == [ok |-> TRUE, v |-> v, i |-> i]

\* The number of backslashes that immediately precede index j, from index lo on.
BackslashRun(s, lo, j) ==
  First(0, j - 1 - lo, LAMBDA k : s[j - 1 - k] # "\\")

\* s[j] begins an escape of the string literal that starts after index lo - 1.
IsEscaper(s, lo, j) == s[j] = "\\" /\ BackslashRun(s, lo, j) % 2 = 0

\* s[j] is the character an escape names.
IsEscaped(s, lo, j) == j > lo /\ IsEscaper(s, lo, j - 1)

RECURSIVE Unescape(_, _, _, _)
\* The characters the literal's source s[lo..hi] stands for; from is the
\* index of the literal's first character.
Unescape(s, from, lo, hi) ==
  IF lo > hi THEN << >>
  ELSE IF lo = hi THEN
    IF IsEscaper(s, from, lo) THEN << >>
    ELSE IF IsEscaped(s, from, lo)
      THEN (IF s[lo] = "n" THEN <<"\n">> ELSE IF s[lo] = "t" THEN <<"\t">> ELSE <<s[lo]>>)
    ELSE <<s[lo]>>
  ELSE LET mid == (lo + hi) \div 2
       IN  Unescape(s, from, lo, mid) \o Unescape(s, from, mid + 1, hi)

\* The string literal whose first character is at index i (after the
\* opening quote): it ends at the first quote no escape names; an escape
\* names one of " \ / n t; a raw line break or tab is not allowed.
ScanString(s, i, acc) ==
  Bind(First(i, Len(s), LAMBDA j : s[j] = "\"" /\ ~IsEscaped(s, i, j)), LAMBDA close :
    IF close > Len(s) THEN ParseFail
    ELSE IF \E j \in i..(close - 1) :
              \/ (IsEscaped(s, i, j) /\ s[j] \notin {"\"", "\\", "/", "n", "t"})
              \/ (~IsEscaped(s, i, j) /\ s[j] \in {"\n", "\t", "\r"})
      THEN ParseFail
    ELSE ParseOk(JStr(acc \o Unescape(s, i, i, close - 1)), close + 1))

RECURSIVE ScanDigits(_, _, _)
ScanDigits(s, j, acc) ==
  IF j <= Len(s) /\ IsDigit(s[j])
    THEN ScanDigits(s, j + 1, acc * 10 + DigitVal(s[j]))
    ELSE [n |-> acc, i |-> j]

\* -? (0 | [1-9][0-9]*)
ParseNumber(s, i) ==
  LET neg == s[i] = "-"
      j == IF neg THEN i + 1 ELSE i
  IN  IF j > Len(s) \/ ~IsDigit(s[j]) THEN ParseFail
      ELSE IF s[j] = "0" THEN
        IF j + 1 <= Len(s) /\ IsDigit(s[j + 1]) THEN ParseFail
        ELSE ParseOk(JNum(0), j + 1)
      ELSE Bind(ScanDigits(s, j, 0), LAMBDA d :
             ParseOk(JNum(IF neg THEN 0 - d.n ELSE d.n), d.i))

RECURSIVE ParseValue(_, _), ParseElements(_, _, _), ParseMembers(_, _, _)

ParseValue(s, i0) ==
  Bind(SkipWs(s, i0), LAMBDA i :
    IF i > Len(s) THEN ParseFail
    ELSE IF s[i] = "{" THEN
      Bind(SkipWs(s, i + 1), LAMBDA j :
        IF j <= Len(s) /\ s[j] = "}" THEN ParseOk(JObj(<< >>), j + 1)
        ELSE ParseMembers(s, j, << >>))
    ELSE IF s[i] = "[" THEN
      Bind(SkipWs(s, i + 1), LAMBDA j :
        IF j <= Len(s) /\ s[j] = "]" THEN ParseOk(JArr(<< >>), j + 1)
        ELSE ParseElements(s, j, << >>))
    ELSE IF s[i] = "\"" THEN ScanString(s, i + 1, << >>)
    ELSE IF s[i] = "-" \/ IsDigit(s[i]) THEN ParseNumber(s, i)
    ELSE IF MatchAt(s, i, <<"n", "u", "l", "l">>) THEN ParseOk(Null, i + 4)
    ELSE IF MatchAt(s, i, <<"t", "r", "u", "e">>) THEN ParseOk(JBool(TRUE), i + 4)
    ELSE IF MatchAt(s, i, <<"f", "a", "l", "s", "e">>) THEN ParseOk(JBool(FALSE), i + 5)
    ELSE ParseFail)

\* After a value of an array (r) or of an object (r, under key): the comma
\* and the rest, or the closing bracket.
AfterValue(s, r, close, acc, Rest(_, _), Done(_)) ==
  IF ~r.ok THEN ParseFail
  ELSE Bind(SkipWs(s, r.i), LAMBDA k :
         IF k > Len(s) THEN ParseFail
         ELSE IF s[k] = "," THEN Rest(k + 1, acc)
         ELSE IF s[k] = close THEN ParseOk(Done(acc), k + 1)
         ELSE ParseFail)

\* value (, value)* ]
ParseElements(s, i, acc) ==
  Bind(ParseValue(s, i), LAMBDA r :
    AfterValue(s, r, "]", IF r.ok THEN Append(acc, r.v) ELSE acc,
               LAMBDA k, acc2 : ParseElements(s, k, acc2), JArr))

\* string : value (, string : value)* }
ParseMembers(s, i0, acc) ==
  Bind(SkipWs(s, i0), LAMBDA i :
    IF i > Len(s) \/ s[i] # "\"" THEN ParseFail
    ELSE Bind(ScanString(s, i + 1, << >>), LAMBDA key :
      IF ~key.ok THEN ParseFail
      ELSE Bind(SkipWs(s, key.i), LAMBDA c :
        IF c > Len(s) \/ s[c] # ":" THEN ParseFail
        ELSE Bind(ParseValue(s, c + 1), LAMBDA r :
          AfterValue(s, r, "}", IF r.ok THEN Append(acc, <<key.v.s, r.v>>) ELSE acc,
                     LAMBDA k, acc2 : ParseMembers(s, k, acc2), JObj)))))

\* JSON.parse(s): [ok |-> TRUE, v] or [ok |-> FALSE] (a SyntaxError)
JSONParse(s) ==
  Bind(ParseValue(s, 1), LAMBDA r :
    IF r.ok /\ SkipWs(s, r.i) = Len(s) + 1 THEN [ok |-> TRUE, v |-> r.v] ELSE ParseFail)


(***************************************************************************)
(* Errors.  An Error object is [name, message].  The messages of the       *)
(* program are fixed texts; the message of an engine error (SyntaxError of *)
(* JSON.parse, TypeError of a property read) is the engine's own text, one *)
(* opaque element.                                                         *)
(***************************************************************************)
Err(name, message) == [name |-> name, message |-> message]

\* part_000 line 26: "مفتاح Atlas غير موجود. أضف VITE_ATLAS_API_KEY أو ATLAS_API_KEY."
MsgNoKey ==
  <<"miftah", " ", "Atlas", " ", "ghayr mawjud", ".", " ", "adif", " ",
    "VITE_ATLAS_API_KEY", " ", "aw", " ", "ATLAS_API_KEY", ".">>

\* part_000 line 85: يرجى الانتظار قليلًا ثم إعادة المحاولة (429): ${text}
MsgRateLimit(text) ==
  <<"yurja al-intizar qalilan thumma i'adat al-muhawala", " ", "(", "4", "2", "9", ")", ":", " ">>
    \o text

\* part_000 line 87: Atlas API error: ${res.status} ${text}
MsgApiError(status, text) ==
  <<"Atlas", " ", "API", " ", "error", ":", " ">> \o NatToStr(status) \o <<" ">> \o text

\* part_001 line 337: "تعذر قراءة JSON. يرجى إعادة المحاولة وإرجاع كائن appointments."
MsgUnparseable ==
  <<"ta'adhdhara qira'at", " ", "JSON", ".", " ", "yurja i'adat al-muhawala wa-irja' ka'in", " ",
    "appointments", ".">>

\* part_001 line 712: "اكتب تفاصيل الموعد أولاً."
MsgWriteFirst == <<"uktub tafasil al-maw'id awwalan", ".">>

\* part_001 line 721: "لم يتم استخراج أي مواعيد."
MsgNoAppointments == <<"lam yatimm istikhraj ayy mawa'id", ".">>

\* part_001 line 728: "الرجاء الانتظار ثم المحاولة مجددًا (429)."
MsgWaitRetry == <<"al-raja' al-intizar thumma al-muhawala mujaddadan", " ", "(", "4", "2", "9", ")", ".">>

\* part_001 line 729: "تجاوزت الحد المسموح. الرجاء الانتظار ثم المحاولة."
MsgWaitRetryModal == <<"tajawazta al-hadd al-masmuh", ".", " ", "al-raja' al-intizar thumma al-muhawala", ".">>

\* part_001 lines 728-729: "حدث خطأ غير متوقع."
MsgUnexpected == <<"hadatha khata' ghayr mutawaqqa'", ".">>

\* part_001 line 724: تمت إضافة ${toInsert.length} موعد/مواعيد.
MsgAdded(n) == <<"tammat idafat", " ">> \o NatToStr(n) \o <<" ", "maw'id", "/", "mawa'id", ".">>

\* The SyntaxError JSON.parse throws; its text is the engine's.
SyntaxErrorOfEngine == Err("SyntaxError", <<"<engine: JSON.parse message>">>)

\* The TypeError of reading a property of null or undefined, or of calling
\* what is not a function; its text is the engine's.
TypeErrorOfEngine == Err("TypeError", <<"<engine: TypeError message>">>)

(***************************************************************************)
(* extractAppointmentsJSON (part_001 lines 329-339)                        *)
(***************************************************************************)
\* The backquote character, which a TLA+ string cannot hold.
BackQuote == "<backquote>"

Fence == <<BackQuote, BackQuote, BackQuote>>

\* Where the fence pattern of line 330, anchored at index i, finds its
\* capture: after the opening fence, an optional "json" in any case, then
\* all white space; the capture runs lazily to the next fence.
FenceCaptureStart(s, i) ==
  LET p == IF MatchAt(ToLowerCase(s), i + 3, <<"j", "s", "o", "n">>) THEN i + 7 ELSE i + 3
  IN  SkipWs(s, p)

FenceClosers(s, i) ==
  {q \in FenceCaptureStart(s, i)..Len(s) : MatchAt(s, q, Fence)}

\* rawContent.match(fence pattern): the leftmost match
FenceMatch(s) ==
  Bind({i \in 1..Len(s) : MatchAt(s, i, Fence) /\ FenceClosers(s, i) # {}}, LAMBDA starts :
    IF starts = {} THEN [found |-> FALSE]
    ELSE Bind(SeqMin(starts), LAMBDA i :
           [found |-> TRUE,
            group |-> SubSeq(s, FenceCaptureStart(s, i), SeqMin(FenceClosers(s, i)) - 1)]))

\* content.match(brace pattern of line 335): from the first "{" to the last "}" after it
BraceMatch(s) ==
  LET opens == {i \in 1..Len(s) : s[i] = "{"}
  IN  IF opens = {} THEN [found |-> FALSE]
      ELSE LET i == SeqMin(opens)
               closes == {j \in (i + 1)..Len(s) : s[j] = "}"}
           IN  IF closes = {} THEN [found |-> FALSE]
               ELSE [found |-> TRUE, text |-> SubSeq(s, i, SeqMax(closes))]

\* The text handed to JSON.parse first.
FenceContent(rawContent) ==
  Bind(FenceMatch(rawContent), LAMBDA fenceMatch :
    IF fenceMatch.found THEN fenceMatch.group ELSE rawContent)

\* part_001 lines 335-337: the fallback, once JSON.parse(content) threw
BraceFallback(content) ==
  Bind(BraceMatch(content), LAMBDA braceMatch :
    IF braceMatch.found
      THEN Bind(JSONParse(braceMatch.text), LAMBDA second :
             IF second.ok THEN [ok |-> TRUE, v |-> second.v]
             ELSE [ok |-> FALSE, err |-> SyntaxErrorOfEngine])
      ELSE [ok |-> FALSE, err |-> Err("Error", MsgUnparseable)])

\* [ok |-> TRUE, v |-> the parsed value] or [ok |-> FALSE, err |-> the error thrown]
extractAppointmentsJSON(rawContent) ==
  Bind(FenceContent(rawContent), LAMBDA content :
    Bind(JSONParse(content), LAMBDA direct :
      IF direct.ok THEN [ok |-> TRUE, v |-> direct.v] ELSE BraceFallback(content)))

(***************************************************************************)
(* isRateLimitError (part_001 lines 341-344)                               *)
(***************************************************************************)
TooManyRequests ==
  <<"t", "o", "o", " ", "m", "a", "n", "y", " ", "r", "e", "q", "u", "e", "s", "t", "s">>

OnlyRequestThisAfter ==
  <<"o", "n", "l", "y", " ", "r", "e", "q", "u", "e", "s", "t", " ",
    "t", "h", "i", "s", " ", "a", "f", "t", "e", "r">>

\* err instanceof Error.  The storage layer's error is an Error in the
\* builds whose PostgrestError extends Error and a plain object in the others.
IsErrorInstance(err) == err.name # "Object"

\* String(err) of a plain object
ObjectObject == <<"[", "o", "b", "j", "e", "c", "t", " ", "O", "b", "j", "e", "c", "t", "]">>

isRateLimitError(err) ==
  Bind(IF IsErrorInstance(err) THEN err.message ELSE ObjectObject, LAMBDA msg :
    Includes(msg, <<"4", "2", "9">>) \/ Includes(ToLowerCase(msg), TooManyRequests))


(***************************************************************************)
(* JSON.stringify, the inverse the completion service and the HTTP layer   *)
(* apply: it writes the texts the program parses.                          *)
(***************************************************************************)
RECURSIVE EscapeString(_)
EscapeString(s) ==
  IF s = << >> THEN << >>
  ELSE IF Len(s) = 1 THEN
    LET c == s[1]
    IN  CASE c = "\"" -> <<"\\", "\"">>
          [] c = "\\" -> <<"\\", "\\">>
          [] c = "\n" -> <<"\\", "n">>
          [] c = "\t" -> <<"\\", "t">>
          [] OTHER -> <<c>>
  ELSE LET mid == Len(s) \div 2
       IN  EscapeString(SubSeq(s, 1, mid)) \o EscapeString(SubSeq(s, mid + 1, Len(s)))

Quote(s) == <<"\"">> \o EscapeString(s) \o <<"\"">>

RECURSIVE JSONStringify(_), StringifyElements(_), StringifyMembers(_)

JSONStringify(v) ==
  CASE v.t = "null" -> <<"n", "u", "l", "l">>
    [] v.t = "bool" -> IF v.b THEN <<"t", "r", "u", "e">> ELSE <<"f", "a", "l", "s", "e">>
    [] v.t = "num" -> IntToStr(v.n)
    [] v.t = "str" -> Quote(v.s)
    [] v.t = "arr" -> <<"[">> \o StringifyElements(v.a) \o <<"]">>
    [] v.t = "obj" -> <<"{">> \o StringifyMembers(v.o) \o <<"}">>

StringifyElements(a) ==
  IF a = << >> THEN << >>
  ELSE JSONStringify(Head(a)) \o (IF Len(a) > 1 THEN <<",">> ELSE << >>) \o StringifyElements(Tail(a))

StringifyMembers(o) ==
  IF o = << >> THEN << >>
  ELSE Quote(Head(o)[1]) \o <<":">> \o JSONStringify(Head(o)[2])
         \o (IF Len(o) > 1 THEN <<",">> ELSE << >>) \o StringifyMembers(Tail(o))

(***************************************************************************)
(* sendToAtlas (part_000)                                                  *)
(***************************************************************************)
\* part_000 line 4.  An environment is undefined or an object of strings.
getEnvValue(key, viteEnv, nodeEnv) ==
  JsOr(JsOr(JsAnd(viteEnv, GetProp(viteEnv, key)), JsAnd(nodeEnv, GetProp(nodeEnv, key))),
       Undefined)

DefaultUrl == <<"https://api.atlascloud.ai/v1/chat/completions">>

\* part_000 lines 11-16
ResolveUrl(viteEnv, nodeEnv) ==
  JsOr(JsOr(JsOr(JsOr(getEnvValue(<<"VITE_ATLAS_API_URL">>, viteEnv, nodeEnv),
                      getEnvValue(<<"VITE_ATLASCLOUD_API_URL">>, viteEnv, nodeEnv)),
                 getEnvValue(<<"ATLAS_API_URL">>, viteEnv, nodeEnv)),
            getEnvValue(<<"ATLASCLOUD_API_URL">>, viteEnv, nodeEnv)),
       JStr(DefaultUrl))

\* part_000 lines 18-23
ResolveApiKey(viteEnv, nodeEnv) ==
  JsOr(JsOr(JsOr(JsOr(getEnvValue(<<"VITE_ATLAS_API_KEY">>, viteEnv, nodeEnv),
                      getEnvValue(<<"VITE_ATLASCLOUD_API_KEY">>, viteEnv, nodeEnv)),
                 getEnvValue(<<"ATLAS_API_KEY">>, viteEnv, nodeEnv)),
            getEnvValue(<<"ATLASCLOUD_API_KEY">>, viteEnv, nodeEnv)),
       JStr(<< >>))

\* part_000 line 29: the slice bound of the user text
MaxUserText == 2000

\* A variant of TrimmedUserText whose slice keeps one character more.
TrimmedUserTextOneMore(userText) == SliceTo(userText, MaxUserText + 1)

\* part_000 line 29: (userText || "").slice(0, 2000)
TrimmedUserText(userText) == SliceTo(userText, MaxUserText)

\* A variant of AtlasBegin that tests the key against null and undefined
\* only, so that the empty string of line 23 passes as a credential.
AtlasBeginNullCheck(userText, viteEnv, nodeEnv) ==
  Bind(ResolveApiKey(viteEnv, nodeEnv), LAMBDA apiKey :
    IF IsNullish(apiKey) THEN [ok |-> FALSE, err |-> Err("Error", MsgNoKey)]
    ELSE [ok |-> TRUE,
          req |-> [url |-> ResolveUrl(viteEnv, nodeEnv).s,
                   method |-> "POST",
                   authorization |-> <<"Bearer", " ">> \o apiKey.s,
                   user |-> TrimmedUserText(userText)]])

\* part_000 lines 11-79, the part of sendToAtlas before the await of fetch:
\* the configuration error, or the one request handed to fetch.
AtlasBegin(userText, viteEnv, nodeEnv) ==
  Bind(ResolveApiKey(viteEnv, nodeEnv), LAMBDA apiKey :
    IF ~Truthy(apiKey) THEN [ok |-> FALSE, err |-> Err("Error", MsgNoKey)]
    ELSE [ok |-> TRUE,
          req |-> [url |-> ResolveUrl(viteEnv, nodeEnv).s,
                   method |-> "POST",
                   authorization |-> <<"Bearer", " ">> \o apiKey.s,
                   user |-> TrimmedUserText(userText)]])

\* res.ok
HttpOk(status) == status >= 200 /\ status <= 299

\* A variant of AtlasFailure that looks the markers up in the body as it was
\* received, without toLowerCase.
AtlasFailureCaseSensitive(status, text) ==
  IF status = 429 \/ Includes(text, TooManyRequests) \/ Includes(text, OnlyRequestThisAfter)
    THEN Err("Error", MsgRateLimit(text))
    ELSE Err("Error", MsgApiError(status, text))

\* part_000 lines 82-87: the error thrown for a response that is not ok
AtlasFailure(status, text) ==
  Bind(ToLowerCase(text), LAMBDA lowered :
    IF status = 429 \/ Includes(lowered, TooManyRequests) \/ Includes(lowered, OnlyRequestThisAfter)
      THEN Err("Error", MsgRateLimit(text))
      ELSE Err("Error", MsgApiError(status, text)))

\* part_000 line 91
AssistantContent(json) ==
  Bind(OptIndex(OptProp(json, <<"choices">>), 0), LAMBDA choice :
    JsOr(JsOr(OptProp(OptProp(choice, <<"message">>), <<"content">>),
              OptProp(OptProp(choice, <<"delta">>), <<"content">>)),
         Null))

\* part_000 lines 81-92, the part of sendToAtlas after the await of fetch,
\* for a response of that status and body text:
\* [ok |-> FALSE, err] or [ok |-> TRUE, assistant].
AtlasEnd(status, text) ==
  IF ~HttpOk(status) THEN [ok |-> FALSE, err |-> AtlasFailure(status, text)]
  ELSE Bind(JSONParse(text), LAMBDA json :
         IF ~json.ok THEN [ok |-> FALSE, err |-> SyntaxErrorOfEngine]
         ELSE [ok |-> TRUE, assistant |-> AssistantContent(json.v)])


(***************************************************************************)
(* Date.  An instant is a number of whole seconds since 1970-01-01T00:00Z  *)
(* (the model's clock has no milliseconds); NaN is [valid |-> FALSE].      *)
(* The time zone of the host is a fixed offset, tz minutes east of UTC.    *)
(***************************************************************************)
\* Days since 1970-01-01 of a civil date (proleptic Gregorian), y >= 0.
DaysFromCivil(y, m, d) ==
  Bind(IF m <= 2 THEN y - 1 ELSE y, LAMBDA yy :
    Bind(yy \div 400, LAMBDA era :
      Bind(yy - era * 400, LAMBDA yoe :
        LET mp == IF m > 2 THEN m - 3 ELSE m + 9
            doy == (153 * mp + 2) \div 5 + d - 1
            doe == yoe * 365 + yoe \div 4 - yoe \div 100 + doy
        IN  era * 146097 + doe - 719468)))

\* The civil date of a day number (z + 719468 >= 0).
CivilFromDays(z) ==
  Bind((z + 719468) \div 146097, LAMBDA era :
    Bind(z + 719468 - era * 146097, LAMBDA doe :
      Bind((doe - doe \div 1460 + doe \div 36524 - doe \div 146096) \div 365, LAMBDA yoe :
        Bind(doe - (365 * yoe + yoe \div 4 - yoe \div 100), LAMBDA doy :
          Bind((5 * doy + 2) \div 153, LAMBDA mp :
            Bind(IF mp < 10 THEN mp + 3 ELSE mp - 9, LAMBDA m :
              [y |-> yoe + era * 400 + (IF m <= 2 THEN 1 ELSE 0),
               m |-> m,
               d |-> doy - (153 * mp + 2) \div 5 + 1]))))))

IsLeap(y) == (y % 4 = 0 /\ y % 100 # 0) \/ y % 400 = 0

DaysInMonth(y, m) ==
  IF m = 2 THEN (IF IsLeap(y) THEN 29 ELSE 28)
  ELSE IF m \in {4, 6, 9, 11} THEN 30 ELSE 31

\* n digits at s[i], s[i+1], ...
DigitsAt(s, i, n) == i + n - 1 <= Len(s) /\ \A k \in i..(i + n - 1) : IsDigit(s[k])

RECURSIVE NumAt(_, _, _)
NumAt(s, i, n) ==
  IF n = 0 THEN 0 ELSE NumAt(s, i, n - 1) * 10 + DigitVal(s[i + n - 1])

NaN == [valid |-> FALSE]

\* The end of the date of a date-time string: YYYY, YYYY-MM or YYYY-MM-DD.
\* [ok, y, m, d, i] with i the index after it.
ParseDateForm(s) ==
  IF ~DigitsAt(s, 1, 4) THEN [ok |-> FALSE]
  ELSE IF Len(s) >= 5 /\ s[5] = "-" /\ DigitsAt(s, 6, 2)
    THEN IF Len(s) >= 8 /\ s[8] = "-" /\ DigitsAt(s, 9, 2)
           THEN [ok |-> TRUE, y |-> NumAt(s, 1, 4), m |-> NumAt(s, 6, 2), d |-> NumAt(s, 9, 2), i |-> 11]
           ELSE [ok |-> TRUE, y |-> NumAt(s, 1, 4), m |-> NumAt(s, 6, 2), d |-> 1, i |-> 8]
    ELSE [ok |-> TRUE, y |-> NumAt(s, 1, 4), m |-> 1, d |-> 1, i |-> 5]

\* THH:mm, THH:mm:ss or THH:mm:ss.sss from index i: [ok, h, mi, sec, i]
ParseTimeForm(s, i) ==
  IF ~(i <= Len(s) /\ s[i] = "T" /\ DigitsAt(s, i + 1, 2) /\ i + 3 <= Len(s)
       /\ s[i + 3] = ":" /\ DigitsAt(s, i + 4, 2))
    THEN [ok |-> FALSE]
  ELSE Bind([ok |-> TRUE, h |-> NumAt(s, i + 1, 2), mi |-> NumAt(s, i + 4, 2), sec |-> 0, i |-> i + 6],
            LAMBDA hm :
         IF i + 6 <= Len(s) /\ s[i + 6] = ":" /\ DigitsAt(s, i + 7, 2)
           THEN [hm EXCEPT !.sec = NumAt(s, i + 7, 2),
                           !.i = IF i + 9 <= Len(s) /\ s[i + 9] = "." /\ DigitsAt(s, i + 10, 3)
                                   THEN i + 13 ELSE i + 9]
           ELSE hm)

\* Z, +HH:mm or -HH:mm from index i to the end: [ok, east] in minutes.
ParseZoneForm(s, i) ==
  IF i = Len(s) /\ s[i] = "Z" THEN [ok |-> TRUE, east |-> 0]
  ELSE IF i + 5 = Len(s) /\ s[i] \in {"+", "-"} /\ DigitsAt(s, i + 1, 2) /\ s[i + 3] = ":"
          /\ DigitsAt(s, i + 4, 2)
    THEN Bind(NumAt(s, i + 1, 2), LAMBDA hh :
           Bind(NumAt(s, i + 4, 2), LAMBDA mm :
             IF hh <= 23 /\ mm <= 59
               THEN [ok |-> TRUE, east |-> IF s[i] = "+" THEN hh * 60 + mm ELSE 0 - (hh * 60 + mm)]
               ELSE [ok |-> FALSE]))
  ELSE [ok |-> FALSE]

\* The instant of a civil time of day on a day: local time, or the time of
\* the zone the text names from index i on.
DateTimeOf(s, tz, days, tm) ==
  IF ~tm.ok THEN NaN
  ELSE IF ~(tm.mi <= 59 /\ tm.sec <= 59 /\ (tm.h <= 23 \/ (tm.h = 24 /\ tm.mi = 0 /\ tm.sec = 0)))
    THEN NaN
  ELSE Bind(days * 86400 + tm.h * 3600 + tm.mi * 60 + tm.sec, LAMBDA civil :
         IF tm.i = Len(s) + 1 THEN [valid |-> TRUE, t |-> civil - tz * 60]
         ELSE Bind(ParseZoneForm(s, tm.i), LAMBDA z :
                IF z.ok THEN [valid |-> TRUE, t |-> civil - z.east * 60] ELSE NaN))

\* new Date(string) of the ECMAScript date-time string format.  A date-only
\* form is UTC; a date-time form without a zone is local time, tz minutes
\* east of UTC.  A text that is not of the format is NaN.
DateParse(s, tz) ==
  Bind(ParseDateForm(s), LAMBDA dt :
    IF ~dt.ok THEN NaN
    ELSE IF ~(dt.m >= 1 /\ dt.m <= 12 /\ dt.d >= 1 /\ dt.d <= DaysInMonth(dt.y, dt.m)) THEN NaN
    ELSE Bind(DaysFromCivil(dt.y, dt.m, dt.d), LAMBDA days :
           IF dt.i = Len(s) + 1 THEN [valid |-> TRUE, t |-> days * 86400]
           ELSE DateTimeOf(s, tz, days, ParseTimeForm(s, dt.i))))

\* n as at least w digits
Pad(n, w) ==
  Bind(NatToStr(n), LAMBDA str : [i \in 1..(w - Len(str)) |-> "0"] \o str)

\* Date.prototype.toISOString of a valid instant of the years 0000-9999
ToISOString(t) ==
  Bind(CivilFromDays(t \div 86400), LAMBDA c :
    Bind(t % 86400, LAMBDA rest :
      Pad(c.y, 4) \o <<"-">> \o Pad(c.m, 2) \o <<"-">> \o Pad(c.d, 2) \o <<"T">>
        \o Pad(rest \div 3600, 2) \o <<":">> \o Pad((rest % 3600) \div 60, 2) \o <<":">>
        \o Pad(rest % 60, 2) \o <<".", "0", "0", "0", "Z">>))


(***************************************************************************)
(* String conversion                                                       *)
(***************************************************************************)
RECURSIVE ToStr(_), ArrayJoin(_, _)

\* String(v), the conversion of a template literal and of join.  An object
\* of the inputs has no toString or valueOf of its own.
ToStr(v) ==
  CASE v.t = "undefined" -> <<"u", "n", "d", "e", "f", "i", "n", "e", "d">>
    [] v.t = "null" -> <<"n", "u", "l", "l">>
    [] v.t = "bool" -> IF v.b THEN <<"t", "r", "u", "e">> ELSE <<"f", "a", "l", "s", "e">>
    [] v.t = "num" -> IntToStr(v.n)
    [] v.t = "str" -> v.s
    [] v.t = "arr" -> ArrayJoin(v.a, <<",">>)
    [] v.t = "obj" -> ObjectObject

\* Array.prototype.join: null and undefined elements give the empty string
ArrayJoin(a, sep) ==
  IF a = << >> THEN << >>
  ELSE (IF IsNullish(Head(a)) THEN << >> ELSE ToStr(Head(a)))
         \o (IF Len(a) > 1 THEN sep ELSE << >>) \o ArrayJoin(Tail(a), sep)

\* v?.length is truthy
HasLength(v) == Truthy(OptProp(v, <<"length">>))

\* v.join(...) throws: join is a function of arrays only
JoinThrows(v) == HasLength(v) /\ v.t # "arr"

(***************************************************************************)
(* mapTypeToPriority (part_001 lines 315-322), type a string               *)
(***************************************************************************)
\* A variant of mapTypeToPriority that tests "personal" before "work".
mapTypeToPriorityPersonalFirst(type) ==
  Bind(ToLowerCase(type), LAMBDA t :
    IF Includes(t, <<"c", "r", "i", "t", "i", "c", "a", "l">>) THEN "critical"
    ELSE IF Includes(t, <<"m", "e", "d", "i", "c", "a", "l">>)
            \/ Includes(t, <<"m", "e", "d", "i", "c", "a", "t", "i", "o", "n">>) THEN "high"
    ELSE IF Includes(t, <<"p", "e", "r", "s", "o", "n", "a", "l">>) THEN "low"
    ELSE IF Includes(t, <<"w", "o", "r", "k">>) THEN "medium"
    ELSE "medium")

mapTypeToPriority(type) ==
  Bind(ToLowerCase(type), LAMBDA t :
    IF Includes(t, <<"c", "r", "i", "t", "i", "c", "a", "l">>) THEN "critical"
    ELSE IF Includes(t, <<"m", "e", "d", "i", "c", "a", "l">>)
            \/ Includes(t, <<"m", "e", "d", "i", "c", "a", "t", "i", "o", "n">>) THEN "high"
    ELSE IF Includes(t, <<"w", "o", "r", "k">>) THEN "medium"
    ELSE IF Includes(t, <<"p", "e", "r", "s", "o", "n", "a", "l">>) THEN "low"
    ELSE "medium")

(***************************************************************************)
(* isHospitalAppointment (part_001 lines 324-327)                          *)
(***************************************************************************)
\* The six keywords of line 326, each one element: hospital, clinic,
\* lab test, medication, follow-up, doctor.
MedicalKeywords ==
  {<<"mustashfa">>, <<"'iyada">>, <<"tahlil">>, <<"dawa'">>, <<"muraja'a">>, <<"tabib">>}

RawField(raw, name) == GetProp(raw, <<name>>)

\* line 325
HospitalText(raw) ==
  ToLowerCase(ToStr(Coalesce(RawField(raw, "title"), JStr(<< >>))) \o <<" ">>
              \o ToStr(Coalesce(RawField(raw, "notes"), JStr(<< >>))) \o <<" ">>
              \o ToStr(Coalesce(RawField(raw, "location"), JStr(<< >>))))

KeywordHit(raw) ==
  Bind(HospitalText(raw), LAMBDA text : \E k \in MedicalKeywords : Includes(text, k))

\* (raw.type ?? "").toLowerCase() throws: toLowerCase is a function of strings only
TypeThrows(raw) == Coalesce(RawField(raw, "type"), JStr(<< >>)).t # "str"

\* line 326 throws: the test of the type is reached only when no keyword hit
isHospitalThrows(raw) == ~KeywordHit(raw) /\ TypeThrows(raw)

\* A variant of isHospitalAppointment whose marker of the type is "medic".
isHospitalAppointmentMedic(raw) ==
  IF KeywordHit(raw) THEN TRUE
  ELSE Includes(ToLowerCase(Coalesce(RawField(raw, "type"), JStr(<< >>)).s),
                <<"m", "e", "d", "i", "c">>)

\* line 326, when it does not throw
isHospitalAppointment(raw) ==
  IF KeywordHit(raw) THEN TRUE
  ELSE Includes(ToLowerCase(Coalesce(RawField(raw, "type"), JStr(<< >>)).s),
                <<"m", "e", "d", "i", "c", "a", "l">>)

(***************************************************************************)
(* convertAtlasToAppointment (part_001 lines 346-391)                      *)
(***************************************************************************)
\* line 372: the reminder default of a hospital appointment
HospitalReminder == 120

\* A variant of PlaceholderTitle: no placeholder, the empty text.
NoPlaceholder == << >>

PlaceholderTitle == <<"maw'id bidun 'unwan">>

SuggestBefore == <<"iqtirah qabla al-maw'id", ":", " ", "tahdir al-tahalil aw al-malaffat al-daruriyya">>

SuggestAfter == <<"iqtirah ba'da al-maw'id", ":", " ", "tadwin al-mulahazat wa-al-ta'limat al-tibbiyya">>

SuggestAlert == <<"tanbih muqtarah", ":", " ", "qabla", " ", "1", "5", " ", "daqiqa 'ala al-aqall">>

PartSep == <<" ", "|", " ">>

\* line 348
DatePart(raw, now) ==
  Coalesce(RawField(raw, "date"), JStr(SliceTo(ToISOString(now), 10)))

\* lines 347-350: [valid, t] of new Date of the composed start text
StartParsed(raw, now, tz) ==
  DateParse(ToStr(DatePart(raw, now)) \o <<"T">>
              \o ToStr(Coalesce(RawField(raw, "time"), JStr(<<"0", "9", ":", "0", "0">>))), tz)

\* A variant of StartAt without the isNaN test: a start that is no instant is
\* written as String(start).
StartAtUnchecked(raw, now, tz) ==
  Bind(StartParsed(raw, now, tz), LAMBDA start :
    IF ~start.valid THEN <<"Invalid Date">> ELSE ToISOString(start.t))

\* A variant of StartAt that falls back to the start of the current minute.
StartAtFallbackMinute(raw, now, tz) ==
  Bind(StartParsed(raw, now, tz), LAMBDA start :
    IF ~start.valid THEN ToISOString(now - (now % 60)) ELSE ToISOString(start.t))

\* line 351
StartAt(raw, now, tz) ==
  Bind(StartParsed(raw, now, tz), LAMBDA start :
    IF ~start.valid THEN ToISOString(now) ELSE ToISOString(start.t))

\* A variant of EndAt that, like the start, falls back to the current
\* instant when the end text is no instant.
EndAtFallbackNow(raw, now, tz) ==
  IF ~Truthy(RawField(raw, "end_time")) THEN Undefined
  ELSE Bind(DateParse(ToStr(DatePart(raw, now)) \o <<"T">> \o ToStr(RawField(raw, "end_time")), tz),
            LAMBDA end : IF end.valid THEN JStr(ToISOString(end.t)) ELSE JStr(ToISOString(now)))

\* lines 353-357: the ISO text, or undefined
EndAt(raw, now, tz) ==
  IF ~Truthy(RawField(raw, "end_time")) THEN Undefined
  ELSE Bind(DateParse(ToStr(DatePart(raw, now)) \o <<"T">> \o ToStr(RawField(raw, "end_time")), tz),
            LAMBDA end : IF end.valid THEN JStr(ToISOString(end.t)) ELSE Undefined)

\* A variant of Reminder with || in place of ??: a raw 0 takes the default.
ReminderOrDefault(raw, hospital) ==
  JsOr(RawField(raw, "reminder_minutes_before"),
       IF hospital THEN JNum(HospitalReminder) ELSE Null)

\* line 372
Reminder(raw, hospital) ==
  Coalesce(RawField(raw, "reminder_minutes_before"),
           IF hospital THEN JNum(HospitalReminder) ELSE Null)

\* A variant of HasPattern without the test against "none".
HasPatternAny(rec) == Truthy(OptProp(rec, <<"pattern">>))

\* raw.recurrence?.pattern && raw.recurrence.pattern !== "none" (line 364)
HasPattern(rec) ==
  Bind(OptProp(rec, <<"pattern">>), LAMBDA pattern :
    Truthy(pattern) /\ pattern # JStr(<<"n", "o", "n", "e">>))

\* lines 364-368: the recurrence summary, a sequence of no or one part
RecurrenceParts(raw) ==
  Bind(RawField(raw, "recurrence"), LAMBDA rec :
    IF HasPattern(rec)
      THEN Bind(GetProp(rec, <<"every">>), LAMBDA every :
             Bind(GetProp(rec, <<"days_of_week">>), LAMBDA dow :
               <<<<"takrar", ":", " ">> \o ToStr(GetProp(rec, <<"pattern">>)) \o <<" ">>
                   \o (IF Truthy(every) THEN <<"kull", " ">> \o ToStr(every) ELSE <<"mutakarrir">>)
                   \o (IF HasLength(dow) THEN <<" ", "(">> \o ArrayJoin(dow.a, <<",">>) \o <<")">>
                       ELSE << >>)>>))
      ELSE << >>)

\* line 366 throws
RecurrenceThrows(raw) ==
  Bind(RawField(raw, "recurrence"), LAMBDA rec :
    HasPattern(rec) /\ JoinThrows(GetProp(rec, <<"days_of_week">>)))

\* The call throws a TypeError: raw is null or undefined (line 348), a join
\* of what is no array (lines 362, 363, 366, 369), or toLowerCase of what is
\* no string (lines 326, 386).
ConvertThrows(raw) ==
  \/ IsNullish(raw)
  \/ JoinThrows(RawField(raw, "actions_before"))
  \/ JoinThrows(RawField(raw, "actions_after"))
  \/ RecurrenceThrows(raw)
  \/ JoinThrows(RawField(raw, "tags"))
  \/ isHospitalThrows(raw)

\* A variant of DescriptionParts that pushes the fixed alert of a hospital
\* appointment only when it pushed a suggestion before it.
DescriptionPartsAlertAfterSuggestion(raw, hospital, reminder) ==
  Bind(RawField(raw, "notes"), LAMBDA notes :
  Bind(RawField(raw, "person"), LAMBDA person :
  Bind(RawField(raw, "actions_before"), LAMBDA before :
  Bind(RawField(raw, "actions_after"), LAMBDA after :
  Bind(RawField(raw, "tags"), LAMBDA tags :
    (IF Truthy(notes) THEN <<ToStr(notes)>> ELSE << >>)
    \o (IF Truthy(person) THEN <<<<"ma'a", ":", " ">> \o ToStr(person)>> ELSE << >>)
    \o (IF HasLength(before)
          THEN <<<<"qabla", ":", " ">> \o ArrayJoin(before.a, PartSep)>> ELSE << >>)
    \o (IF HasLength(after)
          THEN <<<<"ba'da", ":", " ">> \o ArrayJoin(after.a, PartSep)>> ELSE << >>)
    \o RecurrenceParts(raw)
    \o (IF HasLength(tags)
          THEN <<<<"wusum", ":", " ">> \o ArrayJoin(tags.a, <<",", " ">>)>> ELSE << >>)
    \o (IF hospital
          THEN (IF ~HasLength(before) THEN <<SuggestBefore>> ELSE << >>)
               \o (IF ~HasLength(after) THEN <<SuggestAfter>> ELSE << >>)
               \o (IF ~HasLength(before) \/ ~HasLength(after) THEN <<SuggestAlert>> ELSE << >>)
          ELSE << >>)
    \o (IF Truthy(reminder)
          THEN <<<<"tadhkir qabla", ":", " ">> \o ToStr(reminder) \o <<" ", "daqiqa">>>>
          ELSE << >>))))))

\* lines 359-378: the parts pushed, in order, each as the string it joins
\* as; hospital and reminder are the constants of lines 371-372
DescriptionParts(raw, hospital, reminder) ==
  Bind(RawField(raw, "notes"), LAMBDA notes :
  Bind(RawField(raw, "person"), LAMBDA person :
  Bind(RawField(raw, "actions_before"), LAMBDA before :
  Bind(RawField(raw, "actions_after"), LAMBDA after :
  Bind(RawField(raw, "tags"), LAMBDA tags :
    (IF Truthy(notes) THEN <<ToStr(notes)>> ELSE << >>)
    \o (IF Truthy(person) THEN <<<<"ma'a", ":", " ">> \o ToStr(person)>> ELSE << >>)
    \o (IF HasLength(before)
          THEN <<<<"qabla", ":", " ">> \o ArrayJoin(before.a, PartSep)>> ELSE << >>)
    \o (IF HasLength(after)
          THEN <<<<"ba'da", ":", " ">> \o ArrayJoin(after.a, PartSep)>> ELSE << >>)
    \o RecurrenceParts(raw)
    \o (IF HasLength(tags)
          THEN <<<<"wusum", ":", " ">> \o ArrayJoin(tags.a, <<",", " ">>)>> ELSE << >>)
    \o (IF hospital
          THEN (IF ~HasLength(before) THEN <<SuggestBefore>> ELSE << >>)
               \o (IF ~HasLength(after) THEN <<SuggestAfter>> ELSE << >>)
               \o <<SuggestAlert>>
          ELSE << >>)
    \o (IF Truthy(reminder)
          THEN <<<<"tadhkir qabla", ":", " ">> \o ToStr(reminder) \o <<" ", "daqiqa">>>>
          ELSE << >>))))))

RECURSIVE JoinParts(_)
\* parts.join(" | ")
JoinParts(parts) ==
  IF parts = << >> THEN << >>
  ELSE Head(parts) \o (IF Len(parts) > 1 THEN PartSep ELSE << >>) \o JoinParts(Tail(parts))

\* lines 380-390, when the call does not throw
Draft(raw, now, tz) ==
  Bind(isHospitalAppointment(raw), LAMBDA hospital :
    Bind(Reminder(raw, hospital), LAMBDA reminder :
      Bind(JoinParts(DescriptionParts(raw, hospital, reminder)), LAMBDA joined :
        [title |-> JsOr(RawField(raw, "title"), JStr(PlaceholderTitle)),
         description |-> IF joined = << >> THEN Undefined ELSE JStr(joined),
         tag |-> Coalesce(OptIndex(RawField(raw, "tags"), 0), Null),
         start_at |-> StartAt(raw, now, tz),
         end_at |-> EndAt(raw, now, tz),
         priority |-> IF hospital THEN "high"
                      ELSE mapTypeToPriority(Coalesce(RawField(raw, "type"), JStr(<< >>)).s),
         status |-> "scheduled",
         location |-> Coalesce(RawField(raw, "location"), Undefined),
         reminder_minutes_before |-> reminder])))

\* [ok |-> TRUE, draft] or [ok |-> FALSE, err |-> the TypeError thrown]
convertAtlasToAppointment(raw, now, tz) ==
  IF ConvertThrows(raw) THEN [ok |-> FALSE, err |-> TypeErrorOfEngine]
  ELSE [ok |-> TRUE, draft |-> Draft(raw, now, tz)]


(***************************************************************************)
(* handleAiSubmit (part_001 lines 707-734) and the store's add             *)
(* (useAppointments.ts lines 47-61): the synchronous pieces                *)
(***************************************************************************)
\* A variant of AppointmentsRaw without Array.isArray: a value that is no
\* array is taken as the one item of the list.
AppointmentsRawAnyValue(parsed) ==
  Bind(OptProp(parsed, <<"appointments">>), LAMBDA appointments :
    IF appointments.t = "arr" THEN appointments.a
    ELSE IF IsNullish(appointments) THEN << >> ELSE <<appointments>>)

\* part_001 line 720
AppointmentsRaw(parsed) ==
  Bind(OptProp(parsed, <<"appointments">>), LAMBDA appointments :
    IF appointments.t = "arr" THEN appointments.a ELSE << >>)

\* part_001 line 722: the map, [ok |-> TRUE, toInsert, raw], or the error
\* the first throwing call of convertAtlasToAppointment ends it with
ConvertAll(appointmentsRaw, clock, zone) ==
  Bind([i \in 1..Len(appointmentsRaw) |->
          convertAtlasToAppointment(appointmentsRaw[i], clock, zone)], LAMBDA conv :
    Bind({i \in 1..Len(appointmentsRaw) : ~conv[i].ok}, LAMBDA bad :
      IF bad # {}
        THEN [ok |-> FALSE, err |-> conv[SeqMin(bad)].err, raw |-> appointmentsRaw]
        ELSE [ok |-> TRUE,
              toInsert |-> [i \in 1..Len(appointmentsRaw) |-> conv[i].draft],
              raw |-> appointmentsRaw]))

\* part_001 lines 719-721 on the value extractAppointmentsJSON returned
PrepareParsed(parsed, clock, zone) ==
  IF ~parsed.ok THEN [ok |-> FALSE, err |-> parsed.err, raw |-> << >>]
  ELSE Bind(AppointmentsRaw(parsed.v), LAMBDA appointmentsRaw :
         IF Len(appointmentsRaw) = 0
           THEN [ok |-> FALSE, err |-> Err("Error", MsgNoAppointments), raw |-> << >>]
           ELSE ConvertAll(appointmentsRaw, clock, zone))

\* part_001 lines 718-722: from the result of sendToAtlas to the list to
\* insert.  [ok |-> TRUE, toInsert, raw] or [ok |-> FALSE, err, raw], raw
\* the extracted array that was being converted.
Prepare(assistant, clock, zone) ==
  PrepareParsed(IF assistant.t = "str" THEN extractAppointmentsJSON(assistant.s)
                ELSE [ok |-> TRUE, v |-> assistant],
                clock, zone)

\* part_001 line 728: the text setAiError receives in the catch
ErrorText(err) ==
  IF isRateLimitError(err) THEN MsgWaitRetry
  ELSE IF IsErrorInstance(err) THEN err.message ELSE MsgUnexpected

\* part_001 line 729: the message of the error modal
ModalText(err) ==
  IF isRateLimitError(err) THEN MsgWaitRetryModal
  ELSE IF IsErrorInstance(err) THEN err.message ELSE MsgUnexpected

\* part_001 line 730: "تعذر إضافة الموعد آليًا"
ModalTitle == <<"ta'adhdhara idafat al-maw'id aliyyan">>

\* useAppointments.ts lines 50-54: the row add inserts, for the one signed-in user
Payload(a) ==
  [k \in DOMAIN a \cup {"user_id"} |-> IF k = "user_id" THEN "user" ELSE a[k]]

(***************************************************************************)
(* State                                                                   *)
(***************************************************************************)
VARIABLES
  aiText,      \* App: the free text of the form
  aiError,     \* App: null or the error text shown
  aiSuccess,   \* App: null or the success text shown
  aiLoading,   \* App: the loading flag of the form
  errorModal,  \* App: null or [title, message]
  pc,          \* where the running call is: "idle", "atlas" (sendToAtlas awaits
               \* fetch), "insert" (add awaits the insert), "refresh" (add awaits
               \* the store's fetch); of a direct call: "call", "done"
  toInsert,    \* handleAiSubmit: the drafts to insert (empty before the map)
  nextAdd,     \* handleAiSubmit: the index in toInsert of the add under way
  sent,        \* the HTTP requests the running (or last) call handed to fetch
  rows,        \* backend: the appointments table, in insertion order
  items,       \* store: items
  loading,     \* store: loading
  fetches,     \* store: the fetch calls under way, oldest first
  viteEnv,     \* import.meta.env
  nodeEnv,     \* process.env
  tz,          \* the host's time zone, minutes east of UTC
  now,         \* the clock
  submitted,   \* history: null, or the text of the form when the last call began
  response,    \* history: null or the [status, text] the running call received
  caught,      \* history: null or the error the running call's catch received
  extracted,   \* history: the array the running call was converting
  rows0,       \* history: the table when the running call began
  arg,         \* a direct call's argument
  result,      \* a direct call's outcome
  requests,    \* store: the insert, update and delete requests under way
  settled,     \* history: null or [op, ok], the request the backend settled last
  queryFailed, \* history: some answer of the store's query was an error
  editTarget,  \* App: null or the appointment under edit
  editForm,    \* App: the form of the edit
  editError,   \* App: null or the error text of the edit form
  editLoading, \* App: the loading flag of the edit form
  settings,    \* App: settings [reminderWindowMinutes, tags]
  newTag,      \* SettingsOverlay: the text of the new tag
  tagEdits,    \* SettingsOverlay: the edited texts, by tag name
  nextReminder,       \* App: null or the appointment of the next reminder
  minutesToReminder,  \* App: null or the minutes to its start
  notified,    \* App: notifiedRef.current, the ids already notified
  played       \* history: the ids whose tone was played, while they stay scheduled in items

appVars == <<aiText, aiError, aiSuccess, aiLoading, errorModal>>

storeVars == <<rows, items, loading, fetches>>

envVars == <<viteEnv, nodeEnv, tz>>

histVars == <<submitted, response, caught, extracted, rows0>>

callVars == <<arg, result>>

editVars == <<requests, settled, queryFailed, editTarget, editForm, editError, editLoading>>

settingsVars == <<settings, newTag, tagEdits>>

reminderVars == <<nextReminder, minutesToReminder, notified, played>>

\* What the AI form, its store calls and the direct calls leave alone.
moreVars == <<editVars, settingsVars, reminderVars>>

vars ==
  <<aiText, aiError, aiSuccess, aiLoading, errorModal, pc, toInsert, nextAdd, sent,
    rows, items, loading, fetches, viteEnv, nodeEnv, tz, now,
    submitted, response, caught, extracted, rows0, arg, result,
    requests, settled, queryFailed, editTarget, editForm, editError, editLoading,
    settings, newTag, tagEdits, nextReminder, minutesToReminder, notified, played>>

(***************************************************************************)
(* Inputs                                                                  *)
(***************************************************************************)
\* A submission starts while the table holds fewer rows than this.
MaxRows == 2

KeyNames ==
  <<"VITE_ATLAS_API_KEY", "VITE_ATLASCLOUD_API_KEY", "ATLAS_API_KEY", "ATLASCLOUD_API_KEY">>

\* An environment object holding, under the i-th key name, the value f[i].
EnvObj(f) == JObj([i \in 1..4 |-> <<<<KeyNames[i]>>, f[i]>>])

\* The values a variable has in import.meta.env: unset, empty, or a key of its own.
ViteValues(i) == {Undefined, JStr(<< >>), JStr(<<"kv", Digits[i + 1]>>)}

NodeValues(i) == {Undefined, JStr(<< >>), JStr(<<"kn", Digits[i + 1]>>)}

ViteEnvs ==
  {Undefined} \cup
  {EnvObj(<<a, b, c, d>>) : a \in ViteValues(1), b \in ViteValues(2),
                             c \in ViteValues(3), d \in ViteValues(4)}

NoValue == <<Undefined, Undefined, Undefined, Undefined>>

NodeEnvs ==
  {Undefined, EnvObj(NoValue), EnvObj([NoValue EXCEPT ![1] = JStr(<< >>), ![4] = JStr(<< >>)])}
  \cup UNION {{EnvObj([NoValue EXCEPT ![i] = v]) : v \in NodeValues(i) \ {Undefined}} : i \in 1..4}

\* The environments of the form's runs: no key anywhere, or one key.
AppEnvs ==
  {<<Undefined, EnvObj([NoValue EXCEPT ![3] = JStr(<< >>)])>>,
   <<EnvObj([NoValue EXCEPT ![1] = JStr(<<"kv", "1">>)]), Undefined>>}

Zones == {-300, 0, 180}

\* 2025-05-11T22:30:00Z and 2025-05-12T08:15:30Z
Nows == {1747002600, 1747037730}

UserTexts ==
  {<< >>,
   <<" ", "\n", "\t">>,
   <<" ", "maw'id 'inda al-tabib ghadan", " ", "4", ":", "3", "0", "\n">>}


\* Spellings of the two markers of part_000 line 84.
MarkerSpellings ==
  {<<"T", "o", "o", " ", "M", "a", "n", "y", " ", "R", "e", "q", "u", "e", "s", "t", "s">>,
   <<"T", "O", "O", " ", "M", "A", "N", "Y", " ", "R", "E", "Q", "U", "E", "S", "T", "S">>,
   TooManyRequests,
   <<"O", "n", "l", "y", " ", "r", "e", "q", "u", "e", "s", "t", " ", "t", "h", "i", "s", " ", "a", "f", "t", "e", "r">>,
   OnlyRequestThisAfter}

\* Bodies of failed responses that hold a marker, by construction.
MarkedBodies ==
  {pre \o m \o post : pre \in {<< >>, <<"e", "r", "r", "o", "r", ":", " ">>},
                      m \in MarkerSpellings,
                      post \in {<< >>, <<" ", "3", "0", "s">>}}

\* Bodies of failed responses that hold no marker.
UnmarkedBodies ==
  {<< >>,
   <<"I", "n", "t", "e", "r", "n", "a", "l", " ", "S", "e", "r", "v", "e", "r", " ", "E", "r", "r", "o", "r">>,
   <<"t", "o", "o", " ", "m", "a", "n", "y", " ", " ", "r", "e", "q", "u", "e", "s", "t", "s">>,
   <<"t", "o", "o", "m", "a", "n", "y", "r", "e", "q", "u", "e", "s", "t", "s">>,
   <<"r", "e", "q", "u", "e", "s", "t", "s", ":", " ", "t", "o", "o", " ", "m", "a", "n", "y">>,
   <<"o", "n", "l", "y", " ", "r", "e", "q", "u", "e", "s", "t", " ", "t", "h", "i", "s">>,
   <<"u", "p", "s", "t", "r", "e", "a", "m", " ", "s", "t", "a", "t", "u", "s", " ", "4", "2", "9">>}

FailStatuses == {400, 401, 429, 500, 503}

Field(name, v) == <<<<name>>, v>>

\* The response envelope of the completion service: one choice holding a
\* message and a delta, each with the given content (undefined: left out).
Envelope(message, delta) ==
  JObj(<<Field("choices", JArr(<<JObj(
    (IF message = Undefined THEN << >>
       ELSE <<Field("message", JObj(<<Field("role", JStr(<<"assistant">>)), Field("content", message)>>))>>)
    \o (IF delta = Undefined THEN << >>
          ELSE <<Field("delta", JObj(<<Field("content", delta)>>))>>))>>))>>)

\* A medical appointment at a clinic.
ItemMedical ==
  JObj(<<Field("type", JStr(<<"m", "e", "d", "i", "c", "a", "l">>)),
         Field("title", JStr(<<"fahs", " ", "dawri">>)),
         Field("date", JStr(<<"2", "0", "2", "5", "-", "0", "5", "-", "1", "2">>)),
         Field("time", JStr(<<"1", "6", ":", "3", "0">>)),
         Field("location", JStr(<<"'iyada", " ", "al-usra">>))>>)

ItemWork ==
  JObj(<<Field("type", JStr(<<"w", "o", "r", "k">>)),
         Field("title", JStr(<<"ijtima'">>)),
         Field("date", JStr(<<"2", "0", "2", "5", "-", "0", "5", "-", "1", "3">>)),
         Field("time", JStr(<<"1", "0", ":", "0", "0">>)),
         Field("end_time", JStr(<<"1", "1", ":", "0", "0">>)),
         Field("tags", JArr(<<JStr(<<"'amal">>)>>)),
         Field("reminder_minutes_before", JNum(30))>>)

\* Items with a malformed field.
ItemTypeNumber == JObj(<<Field("title", JStr(<<"ziyara">>)), Field("type", JNum(5))>>)

ItemTagsString == JObj(<<Field("title", JStr(<<"ziyara">>)), Field("tags", JStr(<<"w", "o", "r", "k">>))>>)

ItemActionsString ==
  JObj(<<Field("title", JStr(<<"ziyara">>)), Field("actions_before", JStr(<<"ihdar al-milaff">>))>>)

ItemRecurrenceDays ==
  JObj(<<Field("title", JStr(<<"dars">>)),
         Field("recurrence", JObj(<<Field("pattern", JStr(<<"w", "e", "e", "k", "l", "y">>)),
                                    Field("days_of_week", JStr(<<"s", "a", "t">>))>>))>>)

\* Malformed fields the conversion tolerates.
ItemTolerated ==
  JObj(<<Field("title", Null), Field("date", JStr(<<"ghadan">>)), Field("tags", JNum(5)),
         Field("recurrence", JStr(<<"w", "e", "e", "k", "l", "y">>)), Field("actions_after", Null)>>)

\* Items that name a status: one with an empty title, one with no title.
ItemUntitled ==
  JObj(<<Field("title", JStr(<< >>)),
         Field("status", JStr(<<"d", "o", "n", "e">>)),
         Field("date", JStr(<<"2", "0", "2", "5", "-", "0", "5", "-", "1", "4">>)),
         Field("time", JStr(<<"0", "9", ":", "0", "0">>))>>)

ItemStatusOnly ==
  JObj(<<Field("status", JStr(<<"c", "a", "n", "c", "e", "l", "e", "d">>)),
         Field("type", JStr(<<"p", "e", "r", "s", "o", "n", "a", "l">>))>>)

\* Items whose notes hold backquotes: a fenced snippet, and a lone fence.
ItemSnippet ==
  JObj(<<Field("title", JStr(<<"tathbit">>)),
         Field("notes", JStr(<<"shaghghil", " ">> \o Fence \o <<"l", "s">> \o Fence))>>)

ItemFenceMark ==
  JObj(<<Field("title", JStr(<<"tathbit">>)),
         Field("notes", JStr(<<"ba'da", " ">> \o Fence \o <<" ", "fi al-malaff">>))>>)

Appointments(list) == JObj(<<Field("appointments", JArr(list))>>)

Fenced(tag, text) == Fence \o tag \o <<"\n">> \o text \o <<"\n">> \o Fence

\* Texts of the assistant, as the form's runs receive them.
AssistantTexts ==
  {<<"S", "u", "r", "e", "!", " ">> \o Fenced(<<"j", "s", "o", "n">>, <<"{", "\"", "appointments", "\"", ":", " ", "[", "]", "}">>),
   <<"la tujad mawa'id fi al-nass">>,
   <<"h", "e", "r", "e", " ", "{", "n", "o", "t", " ", "j", "s", "o", "n", "}">>,
   JSONStringify(JObj(<<Field("items", JArr(<< >>))>>)),
   JSONStringify(JObj(<<Field("appointments", JStr(<<"n", "o", "n", "e">>))>>)),
   JSONStringify(Appointments(<<ItemUntitled>>)),
   Fenced(<< >>, JSONStringify(Appointments(<<ItemStatusOnly, ItemMedical>>))),
   JSONStringify(Appointments(<<Null, ItemWork>>)),
   JSONStringify(Appointments(<<ItemWork, ItemTagsString>>))}

\* Responses, [status, text], the form's runs receive.
AppResponses ==
  {[status |-> 429, text |-> <<"T", "o", "o", " ", "M", "a", "n", "y", " ", "R", "e", "q", "u", "e", "s", "t", "s">>],
   [status |-> 503, text |-> OnlyRequestThisAfter \o <<" ", "3", "0", "s">>],
   [status |-> 500, text |-> <<"I", "n", "t", "e", "r", "n", "a", "l", " ", "S", "e", "r", "v", "e", "r", " ", "E", "r", "r", "o", "r">>],
   [status |-> 500, text |-> <<"u", "p", "s", "t", "r", "e", "a", "m", " ", "s", "t", "a", "t", "u", "s", " ", "4", "2", "9">>],
   [status |-> 200, text |-> <<"<", "h", "t", "m", "l", ">">>],
   [status |-> 200, text |-> JSONStringify(JObj(<< >>))]}
  \cup {[status |-> 200, text |-> JSONStringify(Envelope(JStr(a), Undefined))] : a \in AssistantTexts}

\* The errors the insert of the storage layer answers with.
StorageErrors ==
  {Err("PostgrestError", <<"new row violates row-level security policy">>),
   Err("Object", <<"JWT expired">>),
   Err("PostgrestError", <<"r", "a", "t", "e", " ", "l", "i", "m", "i", "t", " ", "e", "x", "c", "e", "e", "d", "e", "d", ",", " ", "c", "o", "d", "e", " ", "4", "2", "9">>)}


\* Texts handed to extractAppointmentsJSON directly: a body, bare or fenced,
\* with or without prose around it.
ExtractBodies ==
  {<<"{", "\"", "appointments", "\"", ":", " ", "[", "]", "}">>,
   JSONStringify(Appointments(<<ItemMedical>>)),
   JSONStringify(Appointments(<<ItemWork, ItemTolerated>>)),
   <<"{", "n", "o", "t", " ", "j", "s", "o", "n", "}">>,
   <<"la tujad mawa'id">>,
   <<"{", "\"", "appointments", "\"", ":", " ", "[", "1", ",", " ", "2", "]", "}", " ", "{">>,
   <<"[", "1", ",", " ", "2", "]">>,
   <<"n", "u", "l", "l">>,
   <<"{", "\"", "appointments", "\"", ":", " ", "[", "{", "\"", "title", "\"", ":", " ", "\"", "a", "}", "b", "\"", "}", "]", "}">>,
   <<"}", " ", "{">>,
   JSONStringify(Appointments(<<ItemSnippet>>)),
   JSONStringify(Appointments(<<ItemFenceMark>>))}

ExtractWrappers ==
  {[pre |-> << >>, post |-> << >>],
   [pre |-> <<"tafaddal", ":", " ">>, post |-> << >>],
   [pre |-> << >>, post |-> <<"\n", "shukran", ".">>],
   [pre |-> <<"tafaddal", ":", "\n">>, post |-> <<"\n", "shukran", ".">>],
   [pre |-> Fence \o <<"\n">>, post |-> <<"\n">> \o Fence],
   [pre |-> Fence \o <<"j", "s", "o", "n">> \o <<"\n">>, post |-> <<"\n">> \o Fence],
   [pre |-> Fence \o <<"J", "S", "O", "N", " ">>, post |-> Fence],
   [pre |-> <<"S", "u", "r", "e", "!", " ">> \o Fence \o <<"j", "s", "o", "n">> \o <<"\n">>, post |-> <<"\n">> \o Fence \o <<"\n", "shukran">>],
   [pre |-> Fence \o <<"j", "s", "o", "n">> \o <<"\n">>, post |-> << >>],
   [pre |-> Fence \o <<"j", "s">> \o <<"\n">>, post |-> Fence],
   [pre |-> <<"al-natija", " ", "{", "J", "S", "O", "N", "}", ":", " ">>, post |-> << >>],
   [pre |-> << >>, post |-> <<" ", "shukran", " ", ":", "-", "}">>]}

ExtractInputs == {w.pre \o b \o w.post : w \in ExtractWrappers, b \in ExtractBodies}

\* Raw items handed to convertAtlasToAppointment directly.
DateValues ==
  {Undefined, Null, JStr(<< >>), JStr(<<"2", "0", "2", "5", "-", "0", "5", "-", "1", "2">>), JStr(<<"2", "0", "2", "5", "-", "1", "3", "-", "0", "1">>), JStr(<<"ghadan">>),
   JStr(<<"2", "0", "2", "5", "-", "0", "5", "-", "1", "2", "T", "1", "0", ":", "0", "0">>), JNum(2025)}

TimeValues ==
  {Undefined, Null, JStr(<< >>), JStr(<<"1", "6", ":", "3", "0">>), JStr(<<"2", "5", ":", "0", "0">>), JStr(<<"masa'an">>),
   JStr(<<"2", "3", ":", "5", "9", ":", "5", "9">>), JStr(<<"4", ":", "3", "0">>)}

EndTimeValues ==
  {Undefined, Null, JStr(<< >>), JStr(<<"1", "7", ":", "4", "5">>), JStr(<<"9", "9", ":", "0", "0">>)}

\* An object of the fields that are not undefined.
RECURSIVE Fields(_)
Fields(pairs) ==
  IF pairs = << >> THEN << >>
  ELSE (IF Head(pairs)[2] = Undefined THEN << >> ELSE <<Field(Head(pairs)[1], Head(pairs)[2])>>)
         \o Fields(Tail(pairs))

\* The type of an item: absent, null, or a text.
TypeValues ==
  {Undefined, Null, JStr(<< >>),
   JStr(<<"C", "r", "i", "t", "i", "c", "a", "l">>),
   JStr(<<"m", "e", "d", "i", "c", "a", "l">>),
   JStr(<<"n", "o", "n", "-", "M", "e", "d", "i", "c", "a", "l">>),
   JStr(<<"c", "r", "i", "t", "i", "c", "a", "l", " ", "m", "e", "d", "i", "c", "a", "l">>),
   JStr(<<"M", "E", "D", "I", "C", "A", "T", "I", "O", "N">>),
   JStr(<<"m", "e", "d", "i", "c", "a", "t", "i", "o", "n", " ", "c", "r", "i", "t", "i", "c", "a", "l">>),
   JStr(<<"w", "o", "r", "k", " ", "m", "e", "d", "i", "c", "a", "t", "i", "o", "n">>),
   JStr(<<"W", "o", "r", "k">>),
   JStr(<<"p", "e", "r", "s", "o", "n", "a", "l", "_", "e", "v", "e", "n", "t">>),
   JStr(<<"p", "e", "r", "s", "o", "n", "a", "l", " ", "w", "o", "r", "k">>),
   JStr(<<"o", "t", "h", "e", "r">>)}

\* The reminder of an item: absent, null, zero, positive, negative.
ReminderValues == {Undefined, Null, JNum(0), JNum(30), JNum(0 - 30)}

\* A location without a medical keyword, and a clinic.
PlainLocation == JStr(<<"maktab", " ", "al-sharika">>)

ClinicLocation == JStr(<<"'iyada", " ", "al-usra">>)

\* Items of every type and reminder, at an office or at a clinic.
PriorityItems ==
  {JObj(Fields(<<<<"type", ty>>, <<"title", JStr(<<"ziyara">>)>>, <<"location", loc>>,
                 <<"reminder_minutes_before", rem>>>>)) :
     ty \in TypeValues, loc \in {PlainLocation, ClinicLocation}, rem \in ReminderValues}

\* The sources of the parts of the description.  Notes: absent, empty, a
\* text, or the empty list the prompt allows for an empty field.
NotesValues == {Undefined, JStr(<< >>), JStr(<<"ihdar al-hawiyya">>), JArr(<< >>)}

PersonValues == {Undefined, JStr(<<"Ali">>)}

BeforeValues == {Undefined, JArr(<< >>), JArr(<<JStr(<<"a", "1">>), JStr(<<"a", "2">>)>>)}

AfterValues == {Undefined, JArr(<<JStr(<<"b", "1">>)>>)}

WeeklyRecurrence ==
  JObj(<<Field("pattern", JStr(<<"w", "e", "e", "k", "l", "y">>)), Field("every", JNum(2)),
         Field("days_of_week", JArr(<<JStr(<<"s", "a", "t">>), JStr(<<"m", "o", "n">>)>>))>>)

RecurrenceValues ==
  {Undefined,
   JObj(<<Field("pattern", JStr(<<"n", "o", "n", "e">>)), Field("every", JNum(1)),
          Field("days_of_week", JArr(<< >>))>>),
   JObj(<<Field("pattern", JStr(<<"d", "a", "i", "l", "y">>))>>),
   WeeklyRecurrence}

TagsValues == {Undefined, JArr(<<JStr(<<"t", "1">>), JStr(<<"t", "2">>)>>)}

\* Items of every setting of those sources, at an office or at a clinic,
\* with and without a reminder.
DescItems ==
  {JObj(Fields(<<<<"title", JStr(<<"ziyara">>)>>, <<"location", loc>>, <<"person", pe>>,
                 <<"actions_before", ab>>, <<"actions_after", aa>>, <<"tags", ta>>,
                 <<"recurrence", rec>>, <<"reminder_minutes_before", rem>>, <<"notes", no>>>>)) :
     loc \in {PlainLocation, ClinicLocation}, pe \in PersonValues, ab \in BeforeValues,
     aa \in AfterValues, ta \in TagsValues, rec \in RecurrenceValues,
     rem \in {Undefined, JNum(30)}, no \in NotesValues}

RawItems ==
  {JObj(Fields(<<<<"title", JStr(<<"ziyara">>)>>, <<"date", d>>, <<"time", tm>>, <<"end_time", e>>>>)) :
     d \in DateValues, tm \in TimeValues, e \in EndTimeValues}
  \cup PriorityItems
  \cup DescItems
  \cup {Null, JNum(5), JStr(<<"a", "b", "c">>), JArr(<< >>), ItemMedical, ItemWork, ItemTolerated,
        ItemTypeNumber, ItemTagsString, ItemActionsString, ItemRecurrenceDays}

(***************************************************************************)
(* Initial states                                                          *)
(***************************************************************************)
\* part_001 line 406
DefaultReminderWindow == 15

defaultSettings == [reminderWindowMinutes |-> DefaultReminderWindow, tags |-> << >>]

\* The state after construction: the form empty, the store empty, no call.
InitState(pc0) ==
  /\ aiText = << >>
  /\ aiError = Null
  /\ aiSuccess = Null
  /\ aiLoading = FALSE
  /\ errorModal = Null
  /\ pc = pc0
  /\ toInsert = << >>
  /\ nextAdd = 0
  /\ sent = << >>
  /\ rows = << >>
  /\ items = << >>
  /\ loading = FALSE
  /\ fetches = << >>
  /\ submitted = Null
  /\ response = Null
  /\ caught = Null
  /\ extracted = << >>
  /\ rows0 = << >>
  /\ result = Null
  /\ requests = << >>
  /\ settled = Null
  /\ queryFailed = FALSE
  /\ editTarget = Null
  /\ editForm = [title |-> << >>, status |-> "scheduled"]
  /\ editError = Null
  /\ editLoading = FALSE
  /\ newTag = << >>
  /\ tagEdits = [name \in {} |-> << >>]
  /\ nextReminder = Null
  /\ minutesToReminder = Null
  /\ notified = {}
  /\ played = << >>

\* The clock and the time zone of the form's runs: 2025-05-11T22:30:00Z, UTC+3.
AppNows == {1747002600}

AppZones == {180}

\* AtlasEnd of every response of the form's runs, computed once.
AppEnded == [r \in AppResponses |-> AtlasEnd(r.status, r.text)]

\* Prepare of every successful response at every clock and zone, computed once.
AppPrepared ==
  [r \in {x \in AppResponses : AppEnded[x].ok}, clock \in AppNows, zone \in AppZones |->
     Prepare(AppEnded[r].assistant, clock, zone)]

(***************************************************************************)
(* The store's query (useAppointments.ts line 38): the rows ordered by     *)
(* start_at ascending, rows of equal start_at in insertion order           *)
(***************************************************************************)
\* The start_at texts of the drafts of the form's runs.
AppStarts ==
  UNION {{AppPrepared[k].toInsert[i].start_at : i \in 1..Len(AppPrepared[k].toInsert)} :
           k \in {x \in DOMAIN AppPrepared : AppPrepared[x].ok}}

\* The instant of every such text (a timestamptz column), computed once.
AppInstants == [text \in AppStarts |-> DateParse(text, 0).t]

\* The instant the start_at column of a row holds.
InstantOf(text) == IF text \in AppStarts THEN AppInstants[text] ELSE DateParse(text, 0).t

RECURSIVE InsertByStart(_, _)
InsertByStart(sorted, row) ==
  IF sorted = << >> THEN <<row>>
  ELSE IF InstantOf(row.start_at) < InstantOf(Head(sorted).start_at)
    THEN <<row>> \o sorted
    ELSE <<Head(sorted)>> \o InsertByStart(Tail(sorted), row)

RECURSIVE OrderByStart(_)
OrderByStart(table) ==
  IF table = << >> THEN << >>
  ELSE InsertByStart(OrderByStart(SubSeq(table, 1, Len(table) - 1)), table[Len(table)])

Init ==
  /\ InitState("idle")
  /\ settings = defaultSettings
  /\ \E env \in AppEnvs : viteEnv = env[1] /\ nodeEnv = env[2]
  /\ tz \in AppZones
  /\ now \in AppNows
  /\ arg = Null

(***************************************************************************)
(* handleAiSubmit                                                          *)
(***************************************************************************)
\* A variant of Catch without the finally: the loading flag stays.
CatchWithoutFinally(err) ==
  /\ aiError' = JStr(ErrorText(err))
  /\ errorModal' = [title |-> ModalTitle, message |-> ModalText(err)]
  /\ UNCHANGED aiLoading
  /\ caught' = err
  /\ pc' = "idle"

\* part_001 lines 727-733: the catch and the finally
Catch(err) ==
  /\ aiError' = JStr(ErrorText(err))
  /\ errorModal' = [title |-> ModalTitle, message |-> ModalText(err)]
  /\ aiLoading' = FALSE
  /\ caught' = err
  /\ pc' = "idle"

\* part_001 line 1039 and 1048: the user edits or clears the text; the
\* field is disabled while aiLoading
TypeText ==
  /\ pc = "idle"
  /\ ~aiLoading
  /\ \E text \in UserTexts : aiText' = text
  /\ UNCHANGED <<aiError, aiSuccess, aiLoading, errorModal, pc, toInsert, nextAdd, sent,
                 storeVars, envVars, now, histVars, callVars>>
  /\ UNCHANGED moreVars

\* A variant of IsBlank that tests the text as typed, without trim.
IsBlankUntrimmed(text) == text = << >>

\* part_001 line 711
IsBlank(text) == Trim(text) = << >>

\* part_001 lines 707-717 with part_000 lines 7-79: the submission up to
\* the await of fetch.  The button is disabled while aiLoading.
Submit ==
  /\ pc = "idle"
  /\ ~aiLoading
  /\ Len(rows) < MaxRows
  /\ submitted' = JStr(aiText)
  /\ rows0' = rows
  /\ response' = Null
  /\ extracted' = << >>
  /\ toInsert' = << >>
  /\ nextAdd' = 0
  /\ aiSuccess' = Null
  /\ IF IsBlank(aiText)
       THEN /\ aiError' = JStr(MsgWriteFirst)
            /\ caught' = Null
            /\ sent' = << >>
            /\ UNCHANGED <<aiLoading, errorModal, pc>>
       ELSE LET begun == AtlasBegin(Trim(aiText), viteEnv, nodeEnv)
            IN  IF begun.ok
                  THEN /\ aiError' = Null
                       /\ aiLoading' = TRUE
                       /\ sent' = <<begun.req>>
                       /\ pc' = "atlas"
                       /\ caught' = Null
                       /\ UNCHANGED errorModal
                  ELSE /\ Catch(begun.err)
                       /\ sent' = << >>
  /\ UNCHANGED <<aiText, storeVars, envVars, now, callVars>>
  /\ UNCHANGED moreVars

\* A variant of HttpRespond that sends the request once more when the
\* first answer has status 429.
HttpRespondRetrying ==
  /\ pc = "atlas"
  /\ \E r \in AppResponses :
       LET ended == AppEnded[r]
           prepared == AppPrepared[r, now, tz]
       IN  /\ response' = r
           /\ IF r.status = 429 /\ Len(sent) = 1
                THEN /\ sent' = sent \o sent
                     /\ UNCHANGED <<appVars, pc, caught, toInsert, nextAdd, extracted>>
              ELSE IF ~ended.ok
                THEN /\ Catch(ended.err)
                     /\ UNCHANGED <<toInsert, nextAdd, extracted, aiSuccess, sent>>
              ELSE IF ~prepared.ok
                THEN /\ Catch(prepared.err)
                     /\ extracted' = prepared.raw
                     /\ UNCHANGED <<toInsert, nextAdd, aiSuccess, sent>>
              ELSE /\ toInsert' = prepared.toInsert
                   /\ nextAdd' = 1
                   /\ extracted' = prepared.raw
                   /\ pc' = "insert"
                   /\ UNCHANGED <<aiError, aiSuccess, aiLoading, errorModal, caught, sent>>
  /\ UNCHANGED <<aiText, storeVars, envVars, now, submitted, rows0, callVars>>
  /\ UNCHANGED moreVars

\* part_000 lines 81-92 and part_001 lines 718-723: the response arrives;
\* the handler parses, converts every item and calls the first add.
HttpRespond ==
  /\ pc = "atlas"
  /\ \E r \in AppResponses :
       LET ended == AppEnded[r]
           prepared == AppPrepared[r, now, tz]
       IN  /\ response' = r
           /\ IF ~ended.ok
                THEN /\ Catch(ended.err)
                     /\ UNCHANGED <<toInsert, nextAdd, extracted, aiSuccess>>
              ELSE IF ~prepared.ok
                THEN /\ Catch(prepared.err)
                     /\ extracted' = prepared.raw
                     /\ UNCHANGED <<toInsert, nextAdd, aiSuccess>>
              ELSE /\ toInsert' = prepared.toInsert
                   /\ nextAdd' = 1
                   /\ extracted' = prepared.raw
                   /\ pc' = "insert"
                   /\ UNCHANGED <<aiError, aiSuccess, aiLoading, errorModal, caught>>
  /\ UNCHANGED <<aiText, sent, storeVars, envVars, now, submitted, rows0, callVars>>
  /\ UNCHANGED moreVars

\* part_000 line 72: fetch rejects (no network); the text is the engine's
HttpFail ==
  /\ pc = "atlas"
  /\ Catch(Err("TypeError", <<"<engine: fetch failure message>">>))
  /\ UNCHANGED <<aiText, aiSuccess, toInsert, nextAdd, sent, storeVars, envVars, now,
                 submitted, response, extracted, rows0, callVars>>
  /\ UNCHANGED moreVars

Pending == [ok |-> "pending"]

\* useAppointments.ts lines 55-60 and 34: the insert succeeded; add calls
\* the store's fetch, which sets loading, and awaits it
InsertOk ==
  /\ pc = "insert"
  /\ rows' = Append(rows, Payload(toInsert[nextAdd]))
  /\ loading' = TRUE
  /\ fetches' = Append(fetches, [awaited |-> TRUE, data |-> Pending])
  /\ pc' = "refresh"
  /\ UNCHANGED <<appVars, toInsert, nextAdd, sent, items, envVars, now, histVars, callVars>>
  /\ UNCHANGED moreVars

\* A variant of InsertFail in which the handler catches the failure of an
\* add inside the loop and goes on with the next draft.
InsertFailGoesOn ==
  /\ pc = "insert"
  /\ IF nextAdd < Len(toInsert)
       THEN /\ nextAdd' = nextAdd + 1
            /\ UNCHANGED <<appVars, pc, caught>>
       ELSE /\ \E e \in StorageErrors : Catch(e)
            /\ UNCHANGED <<aiText, aiSuccess, nextAdd>>
  /\ UNCHANGED <<toInsert, sent, storeVars, envVars, now,
                 submitted, response, extracted, rows0, callVars>>
  /\ UNCHANGED moreVars

\* useAppointments.ts lines 56-59 and part_001 lines 727-733: the insert
\* failed; add throws the error and the handler catches it
InsertFail ==
  /\ pc = "insert"
  /\ \E e \in StorageErrors : Catch(e)
  /\ UNCHANGED <<aiText, aiSuccess, toInsert, nextAdd, sent, storeVars, envVars, now,
                 submitted, response, extracted, rows0, callVars>>
  /\ UNCHANGED moreVars

\* useAppointments.ts lines 38-39: the backend answers a fetch with the
\* rows it holds then, or with an error
FetchAnswer ==
  /\ \E i \in 1..Len(fetches) :
       /\ fetches[i].data = Pending
       /\ \E answer \in {[ok |-> "yes", rows |-> OrderByStart(rows)], [ok |-> "no"]} :
            fetches' = [fetches EXCEPT ![i].data = answer]
  /\ UNCHANGED <<appVars, pc, toInsert, nextAdd, sent, rows, items, loading, envVars, now,
                 histVars, callVars>>
  /\ UNCHANGED moreVars

Without(seq, i) == SubSeq(seq, 1, i - 1) \o SubSeq(seq, i + 1, Len(seq))

\* useAppointments.ts lines 40-45: the answer of a fetch reaches the store.
\* When add awaited it (line 60), handleAiSubmit goes on (part_001 lines
\* 723-726 and 732): the next add, or the success text, the cleared field
\* and a fetch that nothing awaits.
FetchReceive ==
  /\ \E i \in 1..Len(fetches) :
       LET f == fetches[i]
           rest == Without(fetches, i)
           last == nextAdd = Len(toInsert)
       IN  /\ f.data # Pending
           /\ items' = IF f.data.ok = "yes" THEN f.data.rows ELSE items
           /\ IF ~f.awaited
                THEN /\ loading' = FALSE
                     /\ fetches' = rest
                     /\ UNCHANGED <<appVars, pc, nextAdd>>
              ELSE IF ~last
                THEN /\ loading' = FALSE
                     /\ fetches' = rest
                     /\ nextAdd' = nextAdd + 1
                     /\ pc' = "insert"
                     /\ UNCHANGED appVars
              ELSE /\ loading' = TRUE
                   /\ fetches' = Append(rest, [awaited |-> FALSE, data |-> Pending])
                   /\ aiSuccess' = JStr(MsgAdded(Len(toInsert)))
                   /\ aiText' = << >>
                   /\ aiLoading' = FALSE
                   /\ pc' = "idle"
                   /\ UNCHANGED <<aiError, errorModal, nextAdd>>
  /\ UNCHANGED <<toInsert, sent, rows, envVars, now, histVars, callVars>>
  /\ UNCHANGED moreVars

\* part_001 line 807: the user closes the error modal
CloseErrorModal ==
  /\ errorModal # Null
  /\ errorModal' = Null
  /\ UNCHANGED <<aiText, aiError, aiSuccess, aiLoading, pc, toInsert, nextAdd, sent,
                 storeVars, envVars, now, histVars, callVars>>
  /\ UNCHANGED moreVars

Next ==
  \/ TypeText
  \/ Submit
  \/ HttpRespond
  \/ HttpFail
  \/ InsertOk
  \/ InsertFail
  \/ FetchAnswer
  \/ FetchReceive
  \/ CloseErrorModal

Spec == Init /\ [][Next]_vars

\* The awaited promises settle: the HTTP request of sendToAtlas is answered
\* or rejected, the insert of add is answered, and every query of the
\* store's fetch is answered and its answer received.
Fairness ==
  /\ WF_vars(HttpRespond \/ HttpFail)
  /\ WF_vars(InsertOk \/ InsertFail)
  /\ WF_vars(FetchAnswer)
  /\ WF_vars(FetchReceive)

SpecLive == Init /\ [][Next]_vars /\ Fairness

(***************************************************************************)
(* Direct calls of the pure functions and of sendToAtlas                   *)
(***************************************************************************)
\* What a direct call leaves alone: the form and the store.
restVars ==
  <<aiText, aiError, aiSuccess, aiLoading, errorModal, toInsert, nextAdd, storeVars, envVars,
    now, submitted, caught, extracted, rows0, arg>>

\* A call of extractAppointmentsJSON on a text.
InitExtract ==
  /\ InitState("call")
  /\ settings = defaultSettings
  /\ viteEnv = Undefined /\ nodeEnv = Undefined
  /\ tz \in AppZones
  /\ now \in AppNows
  /\ arg \in ExtractInputs

CallExtract ==
  /\ pc = "call"
  /\ result' = extractAppointmentsJSON(arg)
  /\ pc' = "done"
  /\ UNCHANGED <<restVars, sent, response>>
  /\ UNCHANGED moreVars

NextExtract == CallExtract

SpecExtract == InitExtract /\ [][NextExtract]_vars

\* A call of convertAtlasToAppointment on a raw item, at a clock, in a zone.
InitConvert ==
  /\ InitState("call")
  /\ settings = defaultSettings
  /\ viteEnv = Undefined /\ nodeEnv = Undefined
  /\ tz \in Zones
  /\ now \in Nows
  /\ arg \in RawItems

CallConvert ==
  /\ pc = "call"
  /\ result' = convertAtlasToAppointment(arg, now, tz)
  /\ pc' = "done"
  /\ UNCHANGED <<restVars, sent, response>>
  /\ UNCHANGED moreVars

NextConvert == CallConvert

SpecConvert == InitConvert /\ [][NextConvert]_vars

\* The environments of the calls of sendToAtlas: every setting of
\* import.meta.env without process.env, and every setting of process.env
\* under an import.meta.env that holds no key.
AtlasEnvs ==
  {<<v, Undefined>> : v \in ViteEnvs}
  \cup {<<v, n>> : v \in {Undefined, EnvObj(NoValue), EnvObj([i \in 1..4 |-> JStr(<< >>)])},
                   n \in NodeEnvs}

\* A text of n characters: the digits in turn, a space in every seventh
\* place, and "z" in the last.
TextOfLength(n) ==
  [i \in 1..n |-> IF i = n THEN "z" ELSE IF i % 7 = 0 THEN " " ELSE Digits[(i % 10) + 1]]

\* Texts around the slice bound of sendToAtlas.
LongTexts ==
  {TextOfLength(n) : n \in {MaxUserText - 1, MaxUserText, MaxUserText + 1, MaxUserText + 3}}

\* The responses the calls of sendToAtlas receive.
AtlasResponses ==
  {[status |-> st, text |-> b] : st \in FailStatuses, b \in MarkedBodies \cup UnmarkedBodies}
  \cup {[status |-> 200, text |-> <<"<", "h", "t", "m", "l", ">">>],
        [status |-> 200, text |-> JSONStringify(JObj(<< >>))],
        [status |-> 200, text |-> JSONStringify(Envelope(Null, Undefined))],
        [status |-> 200, text |-> JSONStringify(Envelope(JStr(<< >>), JStr(<<"{", "}">>)))],
        [status |-> 201, text |-> JSONStringify(Envelope(JStr(<<"{", "}">>), JStr(<<"[", "]">>)))],
        [status |-> 200, text |-> JSONStringify(JObj(<<Field("choices", JArr(<< >>))>>))]}

InitAtlas ==
  /\ InitState("call")
  /\ settings = defaultSettings
  /\ \E env \in AtlasEnvs : viteEnv = env[1] /\ nodeEnv = env[2]
  /\ tz \in AppZones
  /\ now \in AppNows
  /\ arg \in {Trim(text) : text \in UserTexts} \cup LongTexts

\* part_000 lines 7-79: the call up to the await of fetch
SendToAtlasBegin ==
  /\ pc = "call"
  /\ LET begun == AtlasBegin(arg, viteEnv, nodeEnv)
     IN  IF begun.ok
           THEN /\ sent' = <<begun.req>>
                /\ pc' = "atlas"
                /\ UNCHANGED result
           ELSE /\ result' = [ok |-> FALSE, err |-> begun.err]
                /\ pc' = "done"
                /\ UNCHANGED sent
  /\ UNCHANGED <<restVars, response>>
  /\ UNCHANGED moreVars

\* part_000 lines 81-92: the response arrives
SendToAtlasRespond ==
  /\ pc = "atlas"
  /\ \E r \in AtlasResponses :
       /\ response' = r
       /\ result' = AtlasEnd(r.status, r.text)
  /\ pc' = "done"
  /\ UNCHANGED <<restVars, sent>>
  /\ UNCHANGED moreVars

\* part_000 line 72: fetch rejects
SendToAtlasReject ==
  /\ pc = "atlas"
  /\ result' = [ok |-> FALSE, err |-> Err("TypeError", <<"<engine: fetch failure message>">>)]
  /\ pc' = "done"
  /\ UNCHANGED <<restVars, sent, response>>
  /\ UNCHANGED moreVars

NextAtlas == SendToAtlasBegin \/ SendToAtlasRespond \/ SendToAtlasReject

SpecAtlas == InitAtlas /\ [][NextAtlas]_vars

\* Titles, notes and locations with a medical keyword (doctor; lab test,
\* medication, follow-up; clinic, hospital), and without one.
KeywordTitles == {JStr(<<"maw'id", " ", "tabib", " ", "al-asnan">>)}

KeywordNotes ==
  {JStr(<<"ihdar", " ", "tahlil", " ", "al-damm">>), JStr(<<"dawa'", " ", "al-daght">>),
   JStr(<<"muraja'a", " ", "dawriyya">>)}

KeywordLocations == {ClinicLocation, JStr(<<"mustashfa", " ", "al-malik">>)}

\* Items handed to isHospitalAppointment directly: every setting of the
\* fields it reads, with and without a keyword in the fields it does not.
ClassifyItems ==
  {JObj(Fields(<<<<"type", ty>>, <<"title", ti>>, <<"notes", no>>, <<"location", loc>>,
                 <<"person", pe>>, <<"tags", ta>>, <<"actions_before", ab>>>>)) :
     ty \in {Undefined, Null, JNum(5), JStr(<<"w", "o", "r", "k">>),
             JStr(<<"M", "E", "D", "I", "C", "A", "T", "I", "O", "N">>),
             JStr(<<"m", "e", "d", "i", "c", "a", "l">>),
             JStr(<<"n", "o", "n", "-", "M", "e", "d", "i", "c", "a", "l">>)},
     ti \in {Undefined, Null, JStr(<<"ziyara">>)} \cup KeywordTitles,
     no \in {Undefined} \cup KeywordNotes,
     loc \in {Undefined, PlainLocation} \cup KeywordLocations,
     pe \in {Undefined, JStr(<<"tabib", " ", "Ali">>)},
     ta \in {Undefined, JArr(<<JStr(<<"dawa'">>)>>)},
     ab \in {Undefined, JArr(<<JStr(<<"muraja'a">>), JStr(<<"tahlil">>)>>)}}

\* A call of isHospitalAppointment on a raw item.
InitClassify ==
  /\ InitState("call")
  /\ settings = defaultSettings
  /\ viteEnv = Undefined /\ nodeEnv = Undefined
  /\ tz \in AppZones
  /\ now \in AppNows
  /\ arg \in ClassifyItems

\* part_001 lines 324-327: the boolean, or the TypeError of toLowerCase
CallClassify ==
  /\ pc = "call"
  /\ result' = IF isHospitalThrows(arg) THEN [ok |-> FALSE, err |-> TypeErrorOfEngine]
                ELSE [ok |-> TRUE, v |-> isHospitalAppointment(arg)]
  /\ pc' = "done"
  /\ UNCHANGED <<restVars, sent, response>>
  /\ UNCHANGED moreVars

NextClassify == CallClassify

SpecClassify == InitClassify /\ [][NextClassify]_vars

(***************************************************************************)
(* The store with its callers in App: fetch, add, update, remove           *)
(* (useAppointments.ts lines 33-69) and handleEditSubmit (part_001 lines   *)
(* 670-705)                                                                *)
(***************************************************************************)
\* The fetches under way at one time, the requests under way at one time,
\* and the rows of the table.
MaxFetches == 2

MaxRequests == 1

MaxStoreRows == 1

\* The row the callers add: the draft of an item, with the id the backend
\* gives it.
StoreCandidates == {[id |-> "a1"] @@ Payload(Draft(ItemMedical, 1747002600, 0))}

\* "adkhil 'unwan al-maw'id."
MsgEnterTitle == <<"adkhil 'unwan al-maw'id", ".">>

\* The forms the user leaves in the edit form: the title and the status.
EditForms ==
  {[title |-> t, status |-> st] :
     t \in {<<" ">>, <<"maw'id", " ", "mu'addal">>}, st \in {"done"}}

\* part_001 lines 291-298 and 680-684: the start of the edited appointment,
\* its UTC date and time read as local time; the form's date and time are
\* left as they were opened.
EditStart(target, zone) ==
  Bind(ToISOString(DateParse(target.start_at, 0).t), LAMBDA iso :
    Bind(DateParse(SubSeq(iso, 1, 10) \o <<"T">> \o SubSeq(iso, 12, 16), zone), LAMBDA start :
      IF start.valid THEN ToISOString(start.t) ELSE target.start_at))

\* part_001 lines 686-696: the patch handleEditSubmit hands to update
EditPatch(target, form, zone) ==
  [title |-> JStr(Trim(form.title)), status |-> form.status, start_at |-> EditStart(target, zone)]

Patched(row, patch) ==
  [row EXCEPT !.title = patch.title, !.status = patch.status, !.start_at = patch.start_at]

\* The table after the request.
Applied(table, req) ==
  IF req.op = "insert" THEN Append(table, req.row)
  ELSE IF req.op = "update"
    THEN [i \in 1..Len(table) |-> IF table[i].id = req.id THEN Patched(table[i], req.patch)
                                  ELSE table[i]]
  ELSE SelectSeq(table, LAMBDA row : row.id # req.id)

InitStore ==
  /\ InitState("idle")
  /\ settings = defaultSettings
  /\ viteEnv = Undefined /\ nodeEnv = Undefined
  /\ tz = 0
  /\ now \in AppNows
  /\ arg = Null

formVars == <<appVars, pc, toInsert, nextAdd, sent, envVars, now, histVars, callVars>>

\* useAppointments.ts line 34, called by App (part_001 lines 456 and 462):
\* the store's fetch begins
StoreFetch ==
  /\ Len(fetches) < MaxFetches
  /\ loading' = TRUE
  /\ fetches' = Append(fetches, [awaited |-> FALSE, data |-> Pending])
  /\ UNCHANGED <<formVars, rows, items, editVars, settingsVars, reminderVars>>

\* useAppointments.ts lines 47-55: add hands the insert to the backend
StoreAdd ==
  /\ Len(requests) < MaxRequests
  /\ \E row \in StoreCandidates :
       /\ \A i \in 1..Len(rows) : rows[i].id # row.id
       /\ \A i \in 1..Len(requests) : requests[i].op = "insert" => requests[i].row.id # row.id
       /\ Len(rows) + Len(SelectSeq(requests, LAMBDA r : r.op = "insert")) < MaxStoreRows
       /\ requests' = Append(requests, [op |-> "insert", row |-> row, awaited |-> FALSE])
  /\ UNCHANGED <<formVars, storeVars, settled, queryFailed, editTarget, editForm, editError,
                 editLoading, settingsVars, reminderVars>>

\* part_001 line 905 and useAppointments.ts line 67: remove of a listed item
StoreRemove ==
  /\ Len(requests) < MaxRequests
  /\ \E i \in 1..Len(items) :
       requests' = Append(requests, [op |-> "delete", id |-> items[i].id, awaited |-> FALSE])
  /\ UNCHANGED <<formVars, storeVars, settled, queryFailed, editTarget, editForm, editError,
                 editLoading, settingsVars, reminderVars>>

\* part_001 lines 886-896: the user opens a listed item in the edit form
OpenEdit ==
  /\ ~editLoading
  /\ \E i \in 1..Len(items) :
       /\ editTarget' = items[i]
       /\ editForm' = [title |-> items[i].title.s, status |-> items[i].status]
  /\ UNCHANGED <<formVars, storeVars, requests, settled, queryFailed, editError, editLoading,
                 settingsVars, reminderVars>>

\* part_001 lines 978 and 1008: the user edits the title and the status
EditType ==
  /\ editTarget # Null
  /\ ~editLoading
  /\ editForm' \in EditForms
  /\ UNCHANGED <<formVars, storeVars, requests, settled, queryFailed, editTarget, editError,
                 editLoading, settingsVars, reminderVars>>

\* part_001 lines 973 and 1020: the user closes the edit form
CancelEdit ==
  /\ editTarget # Null
  /\ ~editLoading
  /\ editTarget' = Null
  /\ UNCHANGED <<formVars, storeVars, requests, settled, queryFailed, editForm, editError,
                 editLoading, settingsVars, reminderVars>>

\* part_001 lines 670-696 and useAppointments.ts line 63: handleEditSubmit
\* up to the await of the update
EditSubmit ==
  /\ editTarget # Null
  /\ ~editLoading
  /\ IF IsBlank(editForm.title)
       THEN /\ editError' = JStr(MsgEnterTitle)
            /\ UNCHANGED <<requests, editLoading>>
       ELSE /\ Len(requests) < MaxRequests
            /\ editError' = Null
            /\ editLoading' = TRUE
            /\ requests' = Append(requests, [op |-> "update", id |-> editTarget.id,
                                             patch |-> EditPatch(editTarget, editForm, tz),
                                             awaited |-> TRUE])
  /\ UNCHANGED <<formVars, storeVars, settled, queryFailed, editTarget, editForm,
                 settingsVars, reminderVars>>

\* useAppointments.ts lines 55-60, 63-64 and 67-68: the backend carried the
\* request out; add, update and remove call the store's fetch and await it
RequestOk ==
  /\ \E i \in 1..Len(requests) :
       /\ Len(fetches) < MaxFetches
       /\ rows' = Applied(rows, requests[i])
       /\ settled' = [op |-> requests[i].op, ok |-> TRUE]
       /\ requests' = Without(requests, i)
       /\ loading' = TRUE
       /\ fetches' = Append(fetches, [awaited |-> requests[i].awaited, data |-> Pending])
  /\ UNCHANGED <<formVars, items, queryFailed, editTarget, editForm, editError, editLoading,
                 settingsVars, reminderVars>>

\* useAppointments.ts lines 56-59, 64 and 68: the backend answered the
\* request with an error.  add throws it; update and remove return, and
\* handleEditSubmit goes on after its update (part_001 lines 697-698 and
\* 703): it closes the form, calls fetch and resets its flag.
RequestRejected ==
  /\ \E i \in 1..Len(requests) :
       /\ settled' = [op |-> requests[i].op, ok |-> FALSE]
       /\ requests' = Without(requests, i)
       /\ IF requests[i].awaited
            THEN /\ Len(fetches) < MaxFetches
                 /\ editTarget' = Null
                 /\ loading' = TRUE
                 /\ fetches' = Append(fetches, [awaited |-> FALSE, data |-> Pending])
                 /\ editLoading' = FALSE
            ELSE UNCHANGED <<editTarget, loading, fetches, editLoading>>
  /\ UNCHANGED <<formVars, rows, items, queryFailed, editForm, editError,
                 settingsVars, reminderVars>>

\* useAppointments.ts lines 40-45: the answer of a fetch reaches the store.
\* When the update of handleEditSubmit awaited it, the handler goes on
\* (part_001 lines 697-698 and 703).
StoreFetchReceive ==
  /\ \E i \in 1..Len(fetches) :
       LET f == fetches[i]
           rest == Without(fetches, i)
       IN  /\ f.data # Pending
           /\ items' = IF f.data.ok = "yes" THEN f.data.rows ELSE items
           /\ queryFailed' = (queryFailed \/ f.data.ok = "no")
           /\ IF f.awaited
                THEN /\ editTarget' = Null
                     /\ loading' = TRUE
                     /\ fetches' = Append(rest, [awaited |-> FALSE, data |-> Pending])
                     /\ editLoading' = FALSE
                ELSE /\ loading' = FALSE
                     /\ fetches' = rest
                     /\ UNCHANGED <<editTarget, editLoading>>
  /\ UNCHANGED <<formVars, rows, requests, settled, editForm, editError,
                 settingsVars, reminderVars>>

NextStore ==
  \/ StoreFetch
  \/ StoreAdd
  \/ StoreRemove
  \/ OpenEdit
  \/ EditType
  \/ CancelEdit
  \/ EditSubmit
  \/ RequestOk
  \/ RequestRejected
  \/ FetchAnswer
  \/ StoreFetchReceive

SpecStore == InitStore /\ [][NextStore]_vars

\* ---------------------------------------------------------------------------
\* The reminder loop of App: the interval that looks for the next reminder, the
\* effect that forgets the ids that left the scheduled set, and the effect that
\* plays the tone.  The clock is in seconds.
\* ---------------------------------------------------------------------------

\* The period of the interval, in seconds (30_000 ms).
TickPeriod == 30

\* The seconds of the clock a behaviour covers.
MaxElapsed == 1500

ReminderEpoch == CHOOSE t \in AppNows : TRUE

\* The delays of the interval: the period, and a run that comes late (the
\* interval starts anew with every change of items).
TickDelays == {TickPeriod, 10 * TickPeriod}

ReminderWindows == {5, 15, 45}

ReminderRow(id, status, after, reminder) ==
  [(CHOOSE row \in StoreCandidates : TRUE) EXCEPT
     !.id = id, !.status = status,
     !.start_at = ToISOString(ReminderEpoch + after),
     !.reminder_minutes_before = reminder]

RowSoon == ReminderRow("a1", "scheduled", 1215, JNum(10))

RowSoonDone == ReminderRow("a1", "done", 1215, JNum(10))

RowLater == ReminderRow("b2", "scheduled", 1500, Null)

RowPast == ReminderRow("c3", "scheduled", 0 - 60, JNum(30))

ReminderLists ==
  {<< >>, <<RowSoon>>, <<RowLater, RowSoon>>, <<RowSoonDone, RowLater>>, <<RowLater>>,
   <<RowPast, RowSoon>>}

ReminderStarts == {row.start_at : row \in {RowSoon, RowLater, RowPast}}

ReminderInstants == [text \in ReminderStarts |-> DateParse(text, 0).t]

\* new Date(a.start_at).getTime(), in seconds.
StartOf(a) ==
  IF a.start_at \in ReminderStarts THEN ReminderInstants[a.start_at]
  ELSE DateParse(a.start_at, 0).t

\* a.reminder_minutes_before ?? settings.reminderWindowMinutes
WindowMinutes(a, window) ==
  IF a.reminder_minutes_before \in {Null, Undefined} THEN window
  ELSE a.reminder_minutes_before.n

\* An appointment with its diff (in seconds) and its window.
Entry(a, clock, window) ==
  [appt |-> a, diff |-> StartOf(a) - clock, windowMinutes |-> WindowMinutes(a, window)]

\* diff > 0 && diff <= windowMinutes * 60 * 1000
Passes(e) == e.diff > 0 /\ e.diff <= e.windowMinutes * 60

\* The scheduled appointments of a list that pass the filter, in the order of
\* the list.
RECURSIVE Candidates(_, _, _)
Candidates(list, clock, window) ==
  IF list = << >> THEN << >>
  ELSE Bind(Entry(Head(list), clock, window), LAMBDA e :
         IF Head(list).status = "scheduled" /\ Passes(e)
           THEN <<e>> \o Candidates(Tail(list), clock, window)
           ELSE Candidates(Tail(list), clock, window))

\* The first element after the stable sort by diff: the first of the entries
\* with the least diff; null when there is none.
Upcoming(list, clock, window) ==
  Bind(Candidates(list, clock, window), LAMBDA cands :
    IF cands = << >> THEN Null
    ELSE cands[CHOOSE i \in 1..Len(cands) :
                 /\ \A j \in 1..Len(cands) : cands[i].diff <= cands[j].diff
                 /\ \A j \in 1..(i - 1) : cands[j].diff > cands[i].diff])

\* Math.round of diff / 60000, for a diff above zero given in seconds.
RoundMinutes(diff) == (diff + 30) \div 60

\* Math.max(1, Math.round(upcoming.diff / 60000))
MinutesTo(diff) == IF RoundMinutes(diff) < 1 THEN 1 ELSE RoundMinutes(diff)

\* The ids of the scheduled appointments of a list.
ScheduledIds(list) == {list[i].id : i \in {k \in 1..Len(list) : list[k].status = "scheduled"}}

\* A variant of the effect on items that forgets every id.
ForgettingAll(ids, list) == {}

\* notifiedRef after the effect on items: the ids not in the scheduled set go.
Forgetting(ids, list) == {id \in ids : id \in ScheduledIds(list)}

\* Whether the effect on nextReminder plays the tone.
Plays(next, minutes, window, ids) ==
  /\ next # Null /\ minutes # Null
  /\ ~(minutes.n > window)
  /\ next.id \notin ids

Kept(seq, ids) ==
  LET RECURSIVE From(_)
      From(i) == IF i > Len(seq) THEN << >>
                 ELSE IF seq[i] \in ids THEN <<seq[i]>> \o From(i + 1) ELSE From(i + 1)
  IN  From(1)

InitReminder ==
  /\ InitState("idle")
  /\ settings \in {[defaultSettings EXCEPT !.reminderWindowMinutes = w] : w \in ReminderWindows}
  /\ viteEnv = Undefined /\ nodeEnv = Undefined
  /\ tz = 0
  /\ now = ReminderEpoch
  /\ arg = Null

idleVars ==
  <<appVars, pc, toInsert, nextAdd, sent, envVars, histVars, callVars, loading, fetches,
    editVars, settingsVars>>

\* A fetch of the store brings the table as it then is: items change, the
\* effect on items forgets the ids that left the scheduled set, and the
\* interval starts anew.  nextReminder stays until the interval runs.
Refresh ==
  /\ \E list \in ReminderLists :
       /\ list # items
       /\ rows' = list
       /\ items' = list
       /\ notified' = Forgetting(notified, list)
       /\ played' = Kept(played, ScheduledIds(list))
  /\ UNCHANGED <<idleVars, now, nextReminder, minutesToReminder>>

\* The interval runs: it sets nextReminder and minutesToReminder from items and
\* the clock, and the effect on them plays the tone or returns.  The effect
\* does nothing when it runs again on the values it ran on, so it is taken at
\* every run of the interval.
Tick ==
  /\ \E delay \in TickDelays :
       /\ now + delay <= ReminderEpoch + MaxElapsed
       /\ now' = now + delay
  /\ LET upcoming == Upcoming(items, now', settings.reminderWindowMinutes)
     IN  /\ nextReminder' = IF upcoming # Null THEN upcoming.appt ELSE Null
         /\ minutesToReminder' = IF upcoming # Null THEN JNum(MinutesTo(upcoming.diff)) ELSE Null
  /\ IF Plays(nextReminder', minutesToReminder', settings.reminderWindowMinutes, notified)
       THEN /\ notified' = notified \cup {nextReminder'.id}
            /\ played' = Append(played, nextReminder'.id)
       ELSE UNCHANGED <<notified, played>>
  /\ UNCHANGED <<idleVars, rows, items>>

NextReminder ==
  \/ Refresh
  \/ Tick

SpecReminder == InitReminder /\ [][NextReminder]_vars

\* ---------------------------------------------------------------------------
\* The tags of SettingsOverlay: addTag, updateTag and removeTag on
\* settings.tags, with the inputs that feed them.  tagEdits is a function from
\* tag names to texts.
\* ---------------------------------------------------------------------------

\* The texts typed into the inputs of the tags.
TagTexts == {<<" ", " ">>, <<" ", "'amal", " ">>, <<"usra">>, <<"sihha">>}

\* The most tags of a list that takes one more.
MaxTags == 3

\* The tag lists of the stored settings.
StoredTags == {<< >>, <<<<"'amal">>, <<"usra">>>>}

\* s.tags.includes(name)
HasTag(tags, name) == \E i \in 1..Len(tags) : tags[i] = name

\* s.tags.map((t) => (t === oldName ? name : t))
Renamed(tags, oldName, name) ==
  [i \in 1..Len(tags) |-> IF tags[i] = oldName THEN name ELSE tags[i]]

\* s.tags.filter((t) => t !== name)
RECURSIVE Removed(_, _)
Removed(tags, name) ==
  IF tags = << >> THEN << >>
  ELSE IF Head(tags) = name THEN Removed(Tail(tags), name)
  ELSE <<Head(tags)>> \o Removed(Tail(tags), name)

\* { ...prev, [key]: value }
WithEdit(edits, key, value) ==
  [k \in DOMAIN edits \cup {key} |-> IF k = key THEN value ELSE edits[k]]

\* tagEdits[tag] ?? tag
Shown(edits, tag) == IF tag \in DOMAIN edits THEN edits[tag] ELSE tag

InitTags ==
  /\ InitState("idle")
  /\ \E tags \in StoredTags : settings = [defaultSettings EXCEPT !.tags = tags]
  /\ viteEnv = Undefined /\ nodeEnv = Undefined
  /\ tz = 0
  /\ now = ReminderEpoch
  /\ arg = Null

otherVars ==
  <<appVars, pc, toInsert, nextAdd, sent, storeVars, envVars, now, histVars, callVars,
    editVars, reminderVars>>

\* onChange of the input of the new tag.
TypeNewTag ==
  /\ \E text \in TagTexts : newTag' = text
  /\ UNCHANGED <<otherVars, settings, tagEdits>>

addTag ==
  /\ Len(settings.tags) < MaxTags
  /\ LET name == Trim(newTag)
     IN  IF name = << >> THEN UNCHANGED <<settings, newTag>>
         ELSE /\ settings' = IF HasTag(settings.tags, name) THEN settings
                             ELSE [settings EXCEPT !.tags = Append(settings.tags, name)]
              /\ newTag' = << >>
  /\ UNCHANGED <<otherVars, tagEdits>>

\* onChange of the input of a listed tag.
TypeTagEdit ==
  /\ \E i \in 1..Len(settings.tags), text \in TagTexts :
       tagEdits' = WithEdit(tagEdits, settings.tags[i], text)
  /\ UNCHANGED <<otherVars, settings, newTag>>

\* onBlur of the input of a listed tag: updateTag(tag, e.target.value).
updateTag ==
  /\ \E i \in 1..Len(settings.tags) :
       LET oldName == settings.tags[i]
           name == Trim(Shown(tagEdits, oldName))
       IN  IF name = << >>
             THEN /\ tagEdits' = WithEdit(tagEdits, oldName, oldName)
                  /\ UNCHANGED settings
             ELSE /\ settings' = [settings EXCEPT !.tags = Renamed(settings.tags, oldName, name)]
                  /\ UNCHANGED tagEdits
  /\ UNCHANGED <<otherVars, newTag>>

removeTag ==
  /\ \E i \in 1..Len(settings.tags) :
       LET name == settings.tags[i]
       IN  /\ settings' = [settings EXCEPT !.tags = Removed(settings.tags, name)]
           /\ tagEdits' = [k \in DOMAIN tagEdits \ {name} |-> tagEdits[k]]
  /\ UNCHANGED <<otherVars, newTag>>

NextTags ==
  \/ TypeNewTag
  \/ addTag
  \/ TypeTagEdit
  \/ updateTag
  \/ removeTag

SpecTags == InitTags /\ [][NextTags]_vars

(***************************************************************************)
(* Properties of extractAppointmentsJSON                                   *)
(***************************************************************************)
\* Both parse attempts fail on the text: the direct parse of the candidate,
\* and the parse of the brace span when the candidate holds one.
BothParsesFail(text) ==
  Bind(FenceContent(text), LAMBDA content :
    /\ ~JSONParse(content).ok
    /\ BraceMatch(content).found => ~JSONParse(BraceMatch(content).text).ok)

\* C1: whenever both parse attempts fail, extractAppointmentsJSON throws
\* the Error with the fixed retry message that names the appointments
\* object, never another error, and returns no value.
C1_FixedMessageWhenBothFail ==
  (pc = "done" /\ BothParsesFail(arg))
    => result = [ok |-> FALSE, err |-> Err("Error", MsgUnparseable)]

\* C1, the failing case: the text holds a brace span that does not parse,
\* and the call ended with the SyntaxError of the second JSON.parse.
C1_SpanDoesNotParse ==
  /\ pc = "done"
  /\ arg = <<"tafaddal", ":", " ", "{", "n", "o", "t", " ", "j", "s", "o", "n", "}">>
  /\ BothParsesFail(arg)
  /\ result = [ok |-> FALSE, err |-> SyntaxErrorOfEngine]

(***************************************************************************)
(* Properties of handleAiSubmit                                            *)
(***************************************************************************)
\* C2: whenever handleAiSubmit converts a non-empty extracted array, no
\* item aborts the batch: every item of the array is converted, so the list
\* to insert holds one draft per item.
C2_MalformedItemNeverAborts ==
  extracted # << >> => Len(toInsert) = Len(extracted)

\* C2, the failing case: the array holds a null item before a well-formed
\* one; the map threw a TypeError, the call ended in the catch and no row
\* was inserted.
C2_NullItemAbortsBatch ==
  /\ pc = "idle"
  /\ extracted = <<Null, ItemWork>>
  /\ caught = TypeErrorOfEngine
  /\ aiError = JStr(TypeErrorOfEngine.message)
  /\ toInsert = << >>
  /\ rows = rows0

\* The running call received a response that sendToAtlas is to classify as
\* a rate-limit failure: not ok, and of status 429 or with a marker in the body.
RateLimitResponse ==
  /\ response # Null
  /\ ~HttpOk(response.status)
  /\ (response.status = 429 \/ response.text \in MarkedBodies)

\* C3: after a failure, the text shown is the wait-and-retry text if and
\* only if sendToAtlas raised a rate-limit failure; after any other failure
\* it is the message of the error, verbatim.
C3_WaitRetryIffRateLimit ==
  caught # Null =>
    /\ (aiError = JStr(MsgWaitRetry)) <=> RateLimitResponse
    /\ ~RateLimitResponse => aiError = JStr(caught.message)

\* C3, the failing case: a response of status 500 whose body holds the
\* digits 429 is shown as wait-and-retry.
C3_ServerErrorShownAsRateLimit ==
  /\ response = [status |-> 500,
                 text |-> <<"u", "p", "s", "t", "r", "e", "a", "m", " ", "s", "t", "a", "t", "u", "s", " ", "4", "2", "9">>]
  /\ caught = Err("Error", MsgApiError(500, response.text))
  /\ aiError = JStr(MsgWaitRetry)
  /\ errorModal # Null
  /\ errorModal.message = MsgWaitRetryModal


(***************************************************************************)
(* Properties of sendToAtlas                                               *)
(***************************************************************************)
\* The response is not a success (res.ok is false).
FailedResponse == pc = "done" /\ response # Null /\ ~HttpOk(response.status)

\* The lower-cased body of the response holds one of the two markers:
\* MarkedBodies hold one by construction, UnmarkedBodies hold none.
BodyHoldsMarker == response.text \in MarkedBodies

\* C4: a response that is not a success makes sendToAtlas throw the
\* rate-limit error, carrying the body, exactly when its status is 429 or
\* its lower-cased body contains "too many requests" or "only request this
\* after"; any other such response makes it throw the generic failure
\* carrying the status and the body.
C4_FailureClassification ==
  FailedResponse =>
    /\ (response.status = 429 \/ BodyHoldsMarker)
          <=> result = [ok |-> FALSE, err |-> Err("Error", MsgRateLimit(response.text))]
    /\ ~(response.status = 429 \/ BodyHoldsMarker)
          => result = [ok |-> FALSE,
                       err |-> Err("Error", MsgApiError(response.status, response.text))]

\* A 503 whose body spells the marker in capitals is thrown as a rate limit.
C4_MarkerInCapitals ==
  /\ FailedResponse
  /\ response.status = 503
  /\ response.text = <<"e", "r", "r", "o", "r", ":", " ",
                       "T", "O", "O", " ", "M", "A", "N", "Y", " ",
                       "R", "E", "Q", "U", "E", "S", "T", "S", " ", "3", "0", "s">>
  /\ result = [ok |-> FALSE, err |-> Err("Error", MsgRateLimit(response.text))]

\* No variable of either environment, under any of the four key names, holds
\* a string that is not empty.
HoldsKey(env) ==
  /\ env.t = "obj"
  /\ \E i \in 1..Len(env.o) :
       /\ \E k \in 1..4 : env.o[i][1] = <<KeyNames[k]>>
       /\ env.o[i][2].t = "str"
       /\ env.o[i][2].s # << >>

NoCredential == ~HoldsKey(viteEnv) /\ ~HoldsKey(nodeEnv)

\* C5: when none of the four names yields a credential (an empty string
\* counts as none), sendToAtlas throws the configuration error and hands no
\* request to fetch.
C5_NoCredentialNoRequest ==
  (NoCredential /\ pc # "call") =>
    /\ pc = "done"
    /\ result = [ok |-> FALSE, err |-> Err("Error", MsgNoKey)]
    /\ sent = << >>
    /\ response = Null

\* Two names hold the empty string, no name holds a key: the call has ended
\* with the configuration error.
C5_EmptyStringsOnly ==
  /\ pc = "done"
  /\ viteEnv = Undefined
  /\ nodeEnv = EnvObj([NoValue EXCEPT ![1] = JStr(<< >>), ![4] = JStr(<< >>)])
  /\ result = [ok |-> FALSE, err |-> Err("Error", MsgNoKey)]
  /\ sent = << >>


(***************************************************************************)
(* Properties of handleAiSubmit: validation, batches, nothing extracted    *)
(***************************************************************************)
\* The text is empty or holds white space only.
OnlyWhiteSpace(text) == \A i \in 1..Len(text) : text[i] \in WhiteSpace

\* C6: a submission of an empty or white-space-only text ends at once with
\* the validation error: the loading flag is not set, sendToAtlas is not
\* called (no request, no response) and no row is inserted.
C6_BlankInputRejected ==
  (submitted # Null /\ OnlyWhiteSpace(submitted.s)) =>
    /\ pc = "idle"
    /\ aiError = JStr(MsgWriteFirst)
    /\ ~aiLoading
    /\ sent = << >>
    /\ response = Null
    /\ caught = Null
    /\ nextAdd = 0
    /\ rows = rows0

\* A text of a space, a line feed and a tab was submitted.
C6_WhiteSpaceSubmitted ==
  /\ submitted = JStr(<<" ", "\n", "\t">>)
  /\ aiError = JStr(MsgWriteFirst)
  /\ ~aiLoading
  /\ sent = << >>
  /\ rows = rows0

\* The rows the first n drafts of the batch are inserted as.
Persisted(n) == [i \in 1..n |-> Payload(toInsert[i])]

\* The batch ended in the catch after an add was called.
BatchFailed == pc = "idle" /\ nextAdd > 0 /\ caught # Null

AwaitedFetches == {i \in 1..Len(fetches) : fetches[i].awaited}

\* The items of the arrays the form's runs extract.
AppItems ==
  UNION {{AppPrepared[k].raw[i] : i \in 1..Len(AppPrepared[k].raw)} : k \in DOMAIN AppPrepared}

\* convertAtlasToAppointment of every such item at every clock and zone,
\* computed once.
AppConverted ==
  [item \in AppItems, clock \in AppNows, zone \in AppZones |->
     convertAtlasToAppointment(item, clock, zone)]

\* The drafts are the conversions of the extracted items, in their order;
\* while the k-th add awaits its insert exactly the first k-1 drafts have
\* been added to the table, in order, and no earlier add is still under way;
\* after a failed k-th add the table keeps those k-1 rows, the error is
\* shown and no success text is.
BatchInOrder ==
  /\ toInsert # << >> =>
       /\ Len(toInsert) = Len(extracted)
       /\ \A i \in 1..Len(toInsert) :
            AppConverted[extracted[i], now, tz] = [ok |-> TRUE, draft |-> toInsert[i]]
  /\ pc = "insert" => rows = rows0 \o Persisted(nextAdd - 1) /\ AwaitedFetches = {}
  /\ pc = "refresh" => rows = rows0 \o Persisted(nextAdd) /\ Cardinality(AwaitedFetches) = 1
  /\ BatchFailed =>
       /\ nextAdd <= Len(toInsert)
       /\ rows = rows0 \o Persisted(nextAdd - 1)
       /\ aiError # Null
       /\ aiSuccess = Null

\* The step in which an add fails: the table, the text of the form and the
\* position in the batch stay, the error is shown, no success text is set.
AddFailureStep ==
  (pc = "insert" /\ pc' = "idle") =>
    /\ rows' = rows
    /\ nextAdd' = nextAdd
    /\ aiText' = aiText
    /\ aiText' = submitted.s
    /\ caught' # Null
    /\ aiError' # Null
    /\ errorModal' # Null
    /\ aiSuccess' = Null
    /\ ~aiLoading'

\* C7: the drafts are inserted one at a time in the order of the extracted
\* array, each add awaited before the next starts; when the k-th add fails
\* the k-1 earlier rows stay, no later draft is attempted, the error is
\* shown, the success text is not set and the text of the form is kept.
C7_SequentialNoRollback == []BatchInOrder /\ [][AddFailureStep]_vars

\* The second add of a batch of two failed: the first row stays.
C7_SecondAddFailed ==
  /\ BatchFailed
  /\ Len(toInsert) = 2
  /\ nextAdd = 2
  /\ rows = rows0 \o <<Payload(toInsert[1])>>
  /\ aiSuccess = Null
  /\ aiText = submitted.s

\* The value handleAiSubmit takes the appointments from (part_001 line 719),
\* for a response sendToAtlas returned from.
ParsedOf(r) ==
  Bind(AppEnded[r].assistant, LAMBDA content :
    IF content.t = "str" THEN extractAppointmentsJSON(content.s) ELSE [ok |-> TRUE, v |-> content])

\* The parsed value has no appointments key, or a value there that is no
\* array, or an empty array; the null content is such a value.
NoAppointmentsIn(parsed) ==
  Bind(OptProp(parsed, <<"appointments">>), LAMBDA appointments :
    appointments.t # "arr" \/ appointments.a = << >>)

\* ParsedOf of every response sendToAtlas returns from, computed once.
AppParsed == [r \in {x \in AppResponses : AppEnded[x].ok} |-> ParsedOf(r)]

\* sendToAtlas returned, the content was null or parsed, and the parsed
\* value holds no appointment.
NothingExtracted ==
  /\ response # Null
  /\ AppEnded[response].ok
  /\ AppParsed[response].ok
  /\ NoAppointmentsIn(AppParsed[response].v)

\* C8: when the parsed response has an empty appointments array, no
\* appointments key, an appointments value that is no array, or the content
\* is null, the call ends with the "no appointments found" message, not a
\* parse error, and inserts nothing.
C8_NoAppointmentsFound ==
  NothingExtracted =>
    /\ pc = "idle"
    /\ caught = Err("Error", MsgNoAppointments)
    /\ aiError = JStr(MsgNoAppointments)
    /\ toInsert = << >>
    /\ nextAdd = 0
    /\ rows = rows0

\* Prose, then a json fence around {"appointments": []}: the text parses
\* and the call ends with "no appointments found".
C8_ProseThenFencedEmpty ==
  /\ response # Null
  /\ response.status = 200
  /\ AppEnded[response].ok
  /\ AppEnded[response].assistant =
       JStr(<<"S", "u", "r", "e", "!", " ">>
            \o Fenced(<<"j", "s", "o", "n">>,
                      <<"{", "\"", "appointments", "\"",
                        ":", " ", "[", "]", "}">>))
  /\ AppParsed[response] = [ok |-> TRUE, v |-> Appointments(<< >>)]
  /\ caught = Err("Error", MsgNoAppointments)
  /\ rows = rows0

(***************************************************************************)
(* Properties of convertAtlasToAppointment                                 *)
(***************************************************************************)
\* C9: whatever the date and time fields of a raw item hold, the start_at
\* of the draft is the text of a valid instant.
C9_StartAlwaysValid ==
  (pc = "done" /\ result.ok) => DateParse(result.draft.start_at, tz).valid

\* A date that is no date and a time that is no time gave a draft.
C9_DateAndTimeMalformed ==
  /\ pc = "done"
  /\ RawField(arg, "date") = JStr(<<"ghadan">>)
  /\ RawField(arg, "time") = JStr(<<"masa'an">>)
  /\ result.ok
  /\ DateParse(result.draft.start_at, tz).valid

\* The date field is missing: undefined or null.
DateMissing == IsNullish(RawField(arg, "date"))

\* The date field holds a value that is no date.
DateInvalid == ~DateMissing /\ ~DateParse(ToStr(RawField(arg, "date")), tz).valid

\* The text new Date receives when the date is missing: the date of the
\* clock in UTC, "T", and the time of the item or 09:00.
TodayAtTime ==
  SliceTo(ToISOString(now), 10) \o <<"T">>
    \o ToStr(Coalesce(RawField(arg, "time"), JStr(<<"0", "9", ":", "0", "0">>)))

C10_InvalidDateGivesNow ==
  /\ pc = "done"
  /\ RawField(arg, "date") = JStr(<<"2", "0", "2", "5", "-", "1", "3", "-", "0", "1">>)
  /\ RawField(arg, "time") = JStr(<<"1", "6", ":", "3", "0">>)
  /\ result.ok
  /\ result.draft.start_at = ToISOString(now)


(***************************************************************************)
(* Properties of convertAtlasToAppointment: reminder                       *)
(***************************************************************************)
\* The call returned a draft.
Converted == pc = "done" /\ result.ok

\* C11: in every draft reminder_minutes_before is null or a non-negative
\* integer, whatever the raw reminder is, a negative one included.
C11_ReminderNeverNegative ==
  Converted =>
    \/ result.draft.reminder_minutes_before = Null
    \/ /\ result.draft.reminder_minutes_before.t = "num"
       /\ result.draft.reminder_minutes_before.n >= 0

\* A raw reminder of -30 is the reminder of the draft.
C11_NegativeReminderKept ==
  /\ Converted
  /\ RawField(arg, "reminder_minutes_before") = JNum(0 - 30)
  /\ result.draft.reminder_minutes_before = JNum(0 - 30)

\* The "reminder before: N minutes" line of a reminder value.
ReminderLine(reminder) == <<"tadhkir qabla", ":", " ">> \o ToStr(reminder) \o <<" ", "daqiqa">>

\* The text ends with the line.
EndsWith(text, line) ==
  /\ Len(text) >= Len(line)
  /\ SubSeq(text, Len(text) - Len(line) + 1, Len(text)) = line

\* The description of the draft ends with the reminder line of its reminder.
EndsWithReminderLine ==
  /\ result.draft.description # Undefined
  /\ EndsWith(result.draft.description.s, ReminderLine(result.draft.reminder_minutes_before))

\* C12: the description ends with the "reminder before: N minutes" line if
\* and only if the reminder of the draft is not null, a raw 0 included: no
\* draft carries a reminder the description leaves out.
C12_ReminderLineIffReminder ==
  Converted => (EndsWithReminderLine <=> result.draft.reminder_minutes_before # Null)

\* A raw reminder of 0 is the reminder of the draft and the description,
\* here absent, has no reminder line.
C12_ZeroReminderSilent ==
  /\ Converted
  /\ RawField(arg, "reminder_minutes_before") = JNum(0)
  /\ RawField(arg, "location") = PlainLocation
  /\ result.draft.reminder_minutes_before = JNum(0)
  /\ result.draft.description = Undefined


(***************************************************************************)
(* Properties of convertAtlasToAppointment: end_at                         *)
(***************************************************************************)
\* The calendar day, in the host's zone, of the instant an ISO text names.
LocalDay(text) == (DateParse(text, 0).t + tz * 60) \div 86400

\* C13: the end_at of a draft, when present, lies on the calendar date of
\* its start_at; when the start fell back to the current instant no end_at
\* of another date is emitted.
C13_EndOnDateOfStart ==
  (Converted /\ result.draft.end_at # Undefined) =>
    LocalDay(result.draft.end_at.s) = LocalDay(result.draft.start_at)

\* The start time is no time, so the start is the clock (2025-05-11 in
\* UTC); the end is 17:45 of the item's date, 2025-05-12.
C13_EndOnAnotherDate ==
  /\ Converted
  /\ tz = 0
  /\ now = 1747002600
  /\ RawField(arg, "date") = JStr(<<"2", "0", "2", "5", "-", "0", "5", "-", "1", "2">>)
  /\ RawField(arg, "time") = JStr(<<"masa'an">>)
  /\ RawField(arg, "end_time") = JStr(<<"1", "7", ":", "4", "5">>)
  /\ result.draft.start_at = ToISOString(now)
  /\ result.draft.end_at =
       JStr(<<"2", "0", "2", "5", "-", "0", "5", "-", "1", "2", "T",
              "1", "7", ":", "4", "5", ":", "0", "0", ".", "0", "0", "0", "Z">>)

\* The raw end_time is a text that is not empty.
EndTimeGiven ==
  /\ RawField(arg, "end_time").t = "str"
  /\ RawField(arg, "end_time").s # << >>

\* The text new Date receives for the end: the date part of the item (the
\* date of the clock in UTC when the date is missing), "T", the end_time.
EndText ==
  (IF DateMissing THEN SliceTo(ToISOString(now), 10) ELSE ToStr(RawField(arg, "date")))
    \o <<"T">> \o ToStr(RawField(arg, "end_time"))

\* C14: end_at is present exactly when the raw end_time is not empty and,
\* with the date part of the item, is the text of an instant, and then it
\* is that instant; absent, null, empty or unparseable, the end_time gives
\* no end_at and no default.
C14_EndAtIffEndTimeParses ==
  Converted =>
    IF EndTimeGiven /\ DateParse(EndText, tz).valid
      THEN result.draft.end_at = JStr(ToISOString(DateParse(EndText, tz).t))
      ELSE result.draft.end_at = Undefined

\* An end_time of 99:00 on a valid date: no end_at.
C14_UnparseableEndOmitted ==
  /\ Converted
  /\ RawField(arg, "date") = JStr(<<"2", "0", "2", "5", "-", "0", "5", "-", "1", "2">>)
  /\ RawField(arg, "time") = JStr(<<"1", "6", ":", "3", "0">>)
  /\ RawField(arg, "end_time") = JStr(<<"9", "9", ":", "0", "0">>)
  /\ result.draft.end_at = Undefined


(***************************************************************************)
(* Properties of convertAtlasToAppointment: medical items and priority     *)
(***************************************************************************)
\* The types of TypeValues that hold "medical" in some letter case.
MedicalTypes ==
  {JStr(<<"m", "e", "d", "i", "c", "a", "l">>),
   JStr(<<"n", "o", "n", "-", "M", "e", "d", "i", "c", "a", "l">>),
   JStr(<<"c", "r", "i", "t", "i", "c", "a", "l", " ", "m", "e", "d", "i", "c", "a", "l">>)}

\* An item of PriorityItems that is medical: at the clinic, or of a medical type.
MedicalItem ==
  RawField(arg, "location") = ClinicLocation \/ RawField(arg, "type") \in MedicalTypes

RawReminder == RawField(arg, "reminder_minutes_before")

\* C15: a medical item has priority "high" whatever its type, and the
\* reminder 120 when the raw reminder is absent or null; an item that is
\* not medical and has no raw reminder keeps null; a raw reminder that is
\* present is the reminder of the draft.
C15_MedicalForcesHighAndDefault ==
  (Converted /\ arg \in PriorityItems) =>
    /\ MedicalItem => result.draft.priority = "high"
    /\ IsNullish(RawReminder) =>
         result.draft.reminder_minutes_before = IF MedicalItem THEN JNum(120) ELSE Null
    /\ ~IsNullish(RawReminder) => result.draft.reminder_minutes_before = RawReminder

\* An item of type "Critical" at the clinic, its reminder null: priority
\* high, reminder 120.
C15_CriticalAtClinic ==
  /\ Converted
  /\ arg \in PriorityItems
  /\ RawField(arg, "type") = JStr(<<"C", "r", "i", "t", "i", "c", "a", "l">>)
  /\ RawField(arg, "location") = ClinicLocation
  /\ RawReminder = Null
  /\ result.draft.priority = "high"
  /\ result.draft.reminder_minutes_before = JNum(120)

\* The priority the text of line 315-322 gives each type of TypeValues that
\* is not medical.
TypePriorities ==
  {<<Undefined, "medium">>,
   <<Null, "medium">>,
   <<JStr(<< >>), "medium">>,
   <<JStr(<<"C", "r", "i", "t", "i", "c", "a", "l">>), "critical">>,
   <<JStr(<<"M", "E", "D", "I", "C", "A", "T", "I", "O", "N">>), "high">>,
   <<JStr(<<"m", "e", "d", "i", "c", "a", "t", "i", "o", "n", " ", "c", "r", "i", "t", "i", "c", "a", "l">>),
     "critical">>,
   <<JStr(<<"w", "o", "r", "k", " ", "m", "e", "d", "i", "c", "a", "t", "i", "o", "n">>), "high">>,
   <<JStr(<<"W", "o", "r", "k">>), "medium">>,
   <<JStr(<<"p", "e", "r", "s", "o", "n", "a", "l", "_", "e", "v", "e", "n", "t">>), "low">>,
   <<JStr(<<"p", "e", "r", "s", "o", "n", "a", "l", " ", "w", "o", "r", "k">>), "medium">>,
   <<JStr(<<"o", "t", "h", "e", "r">>), "medium">>}

\* C17: the priority of an item that is not medical is that of the first
\* of critical, medical or medication, work, personal its type holds, in
\* any letter case, and medium for any other or absent type; the priority
\* of every draft is one of low, medium, high, critical.
C17_PriorityByFirstMatch ==
  Converted =>
    /\ result.draft.priority \in {"low", "medium", "high", "critical"}
    /\ (arg \in PriorityItems /\ ~MedicalItem) =>
         <<RawField(arg, "type"), result.draft.priority>> \in TypePriorities

\* A type of "personal work" away from the clinic: work is met first.
C17_WorkBeforePersonal ==
  /\ Converted
  /\ arg \in PriorityItems
  /\ ~MedicalItem
  /\ RawField(arg, "type") = JStr(<<"p", "e", "r", "s", "o", "n", "a", "l", " ", "w", "o", "r", "k">>)
  /\ result.draft.priority = "medium"


(***************************************************************************)
(* Properties of isHospitalAppointment                                     *)
(***************************************************************************)
\* The item holds a medical keyword in its title, notes or location, or
\* "medical" in its type: by the construction of ClassifyItems.
MedicalByFields ==
  \/ RawField(arg, "title") \in KeywordTitles
  \/ RawField(arg, "notes") \in KeywordNotes
  \/ RawField(arg, "location") \in KeywordLocations
  \/ RawField(arg, "type") \in MedicalTypes

\* C16: an item is classified medical if and only if its title, notes or
\* location holds one of the six keywords or its lower-cased type holds
\* "medical"; person, tags and actions have no part in it, and a type of
\* "medication" alone does not make the item medical.
C16_MedicalIffKeywordOrType ==
  (pc = "done" /\ result.ok) => (result.v <=> MedicalByFields)

\* A type of MEDICATION, keywords in person, tags and actions only: not medical.
C16_MedicationAloneNotMedical ==
  /\ pc = "done"
  /\ RawField(arg, "type") = JStr(<<"M", "E", "D", "I", "C", "A", "T", "I", "O", "N">>)
  /\ RawField(arg, "title") = JStr(<<"ziyara">>)
  /\ RawField(arg, "notes") = Undefined
  /\ RawField(arg, "location") = PlainLocation
  /\ RawField(arg, "person") = JStr(<<"tabib", " ", "Ali">>)
  /\ RawField(arg, "tags") = JArr(<<JStr(<<"dawa'">>)>>)
  /\ RawField(arg, "actions_before") # Undefined
  /\ result = [ok |-> TRUE, v |-> FALSE]


(***************************************************************************)
(* Properties of convertAtlasToAppointment: description                    *)
(***************************************************************************)
\* The parts an item of DescItems is to give, source by source: each value
\* of a source with the parts it stands for (an empty source: none).
NotesParts ==
  {<<Undefined, << >>>>, <<JStr(<< >>), << >>>>, <<JArr(<< >>), << >>>>,
   <<JStr(<<"ihdar al-hawiyya">>), <<<<"ihdar al-hawiyya">>>>>>}

PersonParts == {<<Undefined, << >>>>, <<JStr(<<"Ali">>), <<<<"ma'a", ":", " ", "Ali">>>>>>}

BeforeParts ==
  {<<Undefined, << >>>>, <<JArr(<< >>), << >>>>,
   <<JArr(<<JStr(<<"a", "1">>), JStr(<<"a", "2">>)>>),
     <<<<"qabla", ":", " ", "a", "1", " ", "|", " ", "a", "2">>>>>>}

AfterParts ==
  {<<Undefined, << >>>>, <<JArr(<<JStr(<<"b", "1">>)>>), <<<<"ba'da", ":", " ", "b", "1">>>>>>}

RecurrenceLines ==
  {<<Undefined, << >>>>,
   <<JObj(<<Field("pattern", JStr(<<"n", "o", "n", "e">>)), Field("every", JNum(1)),
            Field("days_of_week", JArr(<< >>))>>), << >>>>,
   <<JObj(<<Field("pattern", JStr(<<"d", "a", "i", "l", "y">>))>>),
     <<<<"takrar", ":", " ", "d", "a", "i", "l", "y", " ", "mutakarrir">>>>>>,
   <<WeeklyRecurrence,
     <<<<"takrar", ":", " ", "w", "e", "e", "k", "l", "y", " ", "kull", " ", "2", " ",
         "(", "s", "a", "t", ",", "m", "o", "n", ")">>>>>>}

TagsParts ==
  {<<Undefined, << >>>>,
   <<JArr(<<JStr(<<"t", "1">>), JStr(<<"t", "2">>)>>),
     <<<<"wusum", ":", " ", "t", "1", ",", " ", "t", "2">>>>>>}

PartsOf(table, v) == (CHOOSE e \in table : e[1] = v)[2]

\* An item of DescItems at the clinic: the one medical keyword of the family.
AtClinic == RawField(arg, "location") = ClinicLocation

\* The source holds no action: absent or an empty list.
NoActions(v) == v \in {Undefined, JArr(<< >>)}

\* The lines of a medical item.
MedicalParts ==
  IF AtClinic
    THEN (IF NoActions(RawField(arg, "actions_before")) THEN <<SuggestBefore>> ELSE << >>)
         \o (IF NoActions(RawField(arg, "actions_after")) THEN <<SuggestAfter>> ELSE << >>)
         \o <<SuggestAlert>>
    ELSE << >>

\* The reminder line: of the raw reminder, or of the medical default.
ReminderParts ==
  IF RawReminder # Undefined THEN <<ReminderLine(RawReminder)>>
  ELSE IF AtClinic THEN <<ReminderLine(JNum(120))>> ELSE << >>

\* The parts of an item of DescItems, in the order of the description.
ExpectedParts ==
  PartsOf(NotesParts, RawField(arg, "notes"))
    \o PartsOf(PersonParts, RawField(arg, "person"))
    \o PartsOf(BeforeParts, RawField(arg, "actions_before"))
    \o PartsOf(AfterParts, RawField(arg, "actions_after"))
    \o PartsOf(RecurrenceLines, RawField(arg, "recurrence"))
    \o PartsOf(TagsParts, RawField(arg, "tags"))
    \o MedicalParts
    \o ReminderParts

RECURSIVE JoinedBySeparator(_)
JoinedBySeparator(parts) ==
  IF parts = << >> THEN << >>
  ELSE IF Len(parts) = 1 THEN Head(parts)
  ELSE Head(parts) \o <<" ", "|", " ">> \o JoinedBySeparator(Tail(parts))

\* The text holds an empty part: it begins or ends with the separator, or
\* holds two separators in a row.
HoldsEmptyPart(text) ==
  \/ MatchAt(text, 1, <<" ", "|", " ">>)
  \/ EndsWith(text, <<" ", "|", " ">>)
  \/ Includes(text, <<" ", "|", " ", " ", "|", " ">>)

\* C18: the description is never the empty string; it is undefined exactly
\* when no source gave a part, and otherwise it is a join of parts none of
\* which is empty.
C18_DescriptionOmitsEmptyParts ==
  Converted =>
    /\ result.draft.description # JStr(<< >>)
    /\ result.draft.description # Undefined => ~HoldsEmptyPart(result.draft.description.s)
    /\ arg \in DescItems => (result.draft.description = Undefined <=> ExpectedParts = << >>)

\* Notes that are an empty list, and a person: the description begins with
\* the separator of an empty part.
C18_EmptyNotesPartJoined ==
  /\ Converted
  /\ arg = JObj(<<Field("title", JStr(<<"ziyara">>)), Field("location", PlainLocation),
                  Field("person", JStr(<<"Ali">>)), Field("notes", JArr(<< >>))>>)
  /\ result.draft.description = JStr(<<" ", "|", " ", "ma'a", ":", " ", "Ali">>)

\* The notes of the item are a text or are absent.
NotesWellFormed == RawField(arg, "notes").t \in {"undefined", "str"}

DescriptionHolds(line) ==
  /\ result.draft.description # Undefined
  /\ Includes(result.draft.description.s, line)

\* C20: the description of a medical item holds the fixed alert line, the
\* suggestion before exactly when actions_before is empty or absent, the
\* suggestion after exactly when actions_after is; the description of an
\* item that is not medical holds none of the three; the medical item with
\* no actions and no raw reminder has the three and the reminder line of 120.
C20_MedicalSuggestionLines ==
  (Converted /\ arg \in DescItems) =>
    /\ DescriptionHolds(SuggestAlert) <=> AtClinic
    /\ DescriptionHolds(SuggestBefore)
         <=> (AtClinic /\ NoActions(RawField(arg, "actions_before")))
    /\ DescriptionHolds(SuggestAfter)
         <=> (AtClinic /\ NoActions(RawField(arg, "actions_after")))
    /\ (/\ AtClinic
        /\ NoActions(RawField(arg, "actions_before"))
        /\ NoActions(RawField(arg, "actions_after"))
        /\ RawReminder = Undefined)
         => EndsWith(result.draft.description.s,
                     SuggestBefore \o <<" ", "|", " ">> \o SuggestAfter \o <<" ", "|", " ">>
                       \o SuggestAlert \o <<" ", "|", " ">> \o ReminderLine(JNum(120)))

\* The item at the clinic with nothing else: the three lines and the
\* reminder line of 120 minutes.
C20_ClinicWithNothingElse ==
  /\ Converted
  /\ arg = JObj(<<Field("title", JStr(<<"ziyara">>)), Field("location", ClinicLocation)>>)
  /\ result.draft.priority = "high"
  /\ result.draft.reminder_minutes_before = JNum(120)
  /\ result.draft.description =
       JStr(SuggestBefore \o <<" ", "|", " ">> \o SuggestAfter \o <<" ", "|", " ">>
              \o SuggestAlert \o <<" ", "|", " ">> \o ReminderLine(JNum(120)))


(***************************************************************************)
(* Properties of extractAppointmentsJSON                                   *)
(***************************************************************************)
Extracted == pc = "done" /\ arg \in ExtractInputs

\* The item whose title holds a closing brace.
ItemBraceInTitle == JObj(<<Field("title", JStr(<<"a", "}", "b">>))>>)

\* Bodies {"appointments": [...]} and the list each one holds.
ArrayBodies ==
  {[text |-> <<"{", "\"", "appointments", "\"", ":", " ", "[", "]", "}">>, list |-> << >>],
   [text |-> <<"{", "\"", "appointments", "\"", ":", " ", "[", "{", "\"", "title", "\"", ":", " ",
               "\"", "a", "}", "b", "\"", "}", "]", "}">>,
    list |-> <<ItemBraceInTitle>>]}
  \cup {[text |-> JSONStringify(Appointments(list)), list |-> list] :
          list \in {<<ItemMedical>>, <<ItemWork, ItemTolerated>>, <<ItemSnippet>>,
                    <<ItemFenceMark>>}}

\* A body as the response gives it: bare, or in a fence with or without
\* the tag.
FenceForms ==
  {[pre |-> << >>, post |-> << >>],
   [pre |-> Fence \o <<"\n">>, post |-> <<"\n">> \o Fence],
   [pre |-> Fence \o <<"j", "s", "o", "n">> \o <<"\n">>, post |-> <<"\n">> \o Fence],
   [pre |-> Fence \o <<"J", "S", "O", "N", " ">>, post |-> Fence]}

ArrayResponses ==
  {[text |-> w.pre \o b.text \o w.post, list |-> b.list] : w \in FenceForms, b \in ArrayBodies}

\* The list of the body the text holds.
ListOf(text) == (CHOOSE r \in ArrayResponses : r.text = text).list

\* C21: for a response whose body is {"appointments": [...]}, bare or in a
\* fence with or without the json tag, the extractor returns an object
\* whose appointments array is the array of the body, whatever the strings
\* of the array hold.
C21_IdenticalArrayRecovered ==
  (Extracted /\ arg \in {r.text : r \in ArrayResponses}) =>
    /\ result.ok
    /\ OptProp(result.v, <<"appointments">>) = JArr(ListOf(arg))

\* The bare body whose notes hold a fenced snippet: the fence pattern
\* matches inside the string, the snippet alone is parsed, and the call
\* throws.
C21_SnippetInNotesTakenAsFence ==
  /\ Extracted
  /\ arg = JSONStringify(Appointments(<<ItemSnippet>>))
  /\ FenceContent(arg) = <<"l", "s">>
  /\ result = [ok |-> FALSE, err |-> Err("Error", MsgUnparseable)]


\* Prose around a body, with no fence: before, after, or both; the last two
\* hold a brace of their own.
ProseForms ==
  {[pre |-> <<"tafaddal", ":", " ">>, post |-> << >>],
   [pre |-> << >>, post |-> <<"\n", "shukran", ".">>],
   [pre |-> <<"tafaddal", ":", "\n">>, post |-> <<"\n", "shukran", ".">>],
   [pre |-> <<"al-natija", " ", "{", "J", "S", "O", "N", "}", ":", " ">>, post |-> << >>],
   [pre |-> << >>, post |-> <<" ", "shukran", " ", ":", "-", "}">>]}

\* The bodies with no pair of fences in their strings, each one a single
\* JSON object.
ObjectBodies == {b \in ArrayBodies : b.list # <<ItemSnippet>>}

ProseResponses ==
  {[text |-> w.pre \o b.text \o w.post, list |-> b.list] : w \in ProseForms, b \in ObjectBodies}

ObjectOf(text) == Appointments((CHOOSE r \in ProseResponses : r.text = text).list)

\* C22: for a response with prose before or after a single JSON object and
\* no fence, the direct parse fails and the brace fallback returns exactly
\* that object.
C22_ObjectRecoveredFromProse ==
  (Extracted /\ arg \in {r.text : r \in ProseResponses}) =>
    /\ ~JSONParse(arg).ok
    /\ result = [ok |-> TRUE, v |-> ObjectOf(arg)]

\* Prose that holds a closing brace after the object: the greedy span runs
\* to that brace and the second parse throws.
C22_BraceInProseWidensSpan ==
  /\ Extracted
  /\ arg = <<"{", "\"", "appointments", "\"", ":", " ", "[", "]", "}",
             " ", "shukran", " ", ":", "-", "}">>
  /\ BraceMatch(arg).text = arg
  /\ result = [ok |-> FALSE, err |-> SyntaxErrorOfEngine]


(***************************************************************************)
(* Properties of handleAiSubmit: the outcome of every call                 *)
(***************************************************************************)
\* A call that passed the test of the empty text has ended.
CallEnded == pc = "idle" /\ submitted # Null /\ ~IsBlank(submitted.s)

\* Exactly one of the error text and the success text is set.
OneOutcome == (aiError # Null) # (aiSuccess # Null)

\* C23: every failure is caught by the handler: a call that set the loading
\* flag resets it in the end, and it ends with exactly one of the error
\* text and the success text set: the error text exactly when an error was
\* caught.
C23_EveryCallEndsWithOneOutcome ==
  /\ [](CallEnded => (~aiLoading /\ OneOutcome /\ (aiError # Null <=> caught # Null)))
  /\ [][(aiLoading /\ ~aiLoading') => (pc' = "idle" /\ OneOutcome')]_vars
  /\ (aiLoading ~> ~aiLoading)

\* The second insert of a call failed after the first row was stored: the
\* call has ended with the error text and no success text.
C23_PersistenceFailureCaught ==
  /\ CallEnded
  /\ caught \in StorageErrors
  /\ Len(rows) = Len(rows0) + 1
  /\ ~aiLoading
  /\ aiError # Null
  /\ aiSuccess = Null

(***************************************************************************)
(* Properties of sendToAtlas and handleAiSubmit: the requests              *)
(***************************************************************************)
\* The step is the beginning of a call: the user submitted the form.
Submission == pc = "idle" /\ ~aiLoading /\ submitted' = JStr(aiText)

\* C24: a call hands at most one request to fetch; after a failure of any
\* kind, the rate limit included, no further request is sent: the requests
\* change only when the user submits the form again.
C24_OneRequestPerSubmission ==
  /\ [](Len(sent) <= 1)
  /\ [][sent' # sent => Submission]_vars
  /\ [][(caught' # Null /\ ~Submission) => sent' = sent]_vars

\* A call ended by an answer of status 429: its one request is all that
\* was sent.
C24_RateLimitedOnce ==
  /\ pc = "idle"
  /\ response # Null
  /\ response.status = 429
  /\ caught # Null
  /\ Len(sent) = 1
  /\ ~aiLoading


\* The call of sendToAtlas went past the test of the key.
AtlasCalled == pc \in {"atlas", "done"} /\ arg # Null

\* The text is the first n characters of the whole, or the whole when it
\* is shorter.
FirstCharacters(text, whole, n) ==
  /\ Len(text) = (IF Len(whole) <= n THEN Len(whole) ELSE n)
  /\ text \o SubSeq(whole, Len(text) + 1, Len(whole)) = whole

\* C25: the user message of the request is the first 2000 characters of the
\* input text, the whole text when it is shorter; a long text raises no
\* error: with a key, the request is sent whatever the length.
C25_UserMessageIsFirst2000 ==
  (AtlasCalled /\ ~NoCredential) =>
    /\ Len(sent) = 1
    /\ FirstCharacters(sent[1].user, arg, 2000)
    /\ (pc = "done" /\ ~result.ok) => (response # Null \/ result.err.name = "TypeError")

\* A text of 2003 characters: the request holds its first 2000.
C25_LongTextCut ==
  /\ pc = "atlas"
  /\ Len(arg) = 2003
  /\ arg[2003] = "z"
  /\ Len(sent[1].user) = 2000
  /\ sent[1].user[2000] = arg[2000]
  /\ sent[1].user[1] = arg[1]


(***************************************************************************)
(* Properties of convertAtlasToAppointment and add: status and title       *)
(***************************************************************************)
\* The raw item the row was made from, for a row of the running (or last)
\* call; the rows before it were stored by earlier calls.
OfThisCall(i) == i > Len(rows0)

RawOfRow(i) == extracted[i - Len(rows0)]

NoTitle(raw) == RawField(raw, "title") \in {Undefined, Null, JStr(<< >>)}

\* C26: every row the pipeline stored has the status "scheduled", whatever
\* the raw item named, and a title that is not empty: the placeholder when
\* the raw title is empty or absent, the raw title otherwise.
C26_StoredScheduledAndTitled ==
  \A i \in 1..Len(rows) :
    /\ rows[i].status = "scheduled"
    /\ rows[i].title \notin {Undefined, Null, JStr(<< >>)}
    /\ OfThisCall(i) =>
         rows[i].title = (IF NoTitle(RawOfRow(i)) THEN JStr(<<"maw'id bidun 'unwan">>)
                          ELSE RawField(RawOfRow(i), "title"))

\* An item with an empty title and the status "done" was stored, then, by
\* the next call, one with no title and the status "canceled": both rows
\* are scheduled and hold the placeholder.
C26_UntitledItemsStored ==
  /\ extracted = <<ItemStatusOnly, ItemMedical>>
  /\ Len(rows0) = 1
  /\ Len(rows) = 2
  /\ rows[1].title = JStr(<<"maw'id bidun 'unwan">>)
  /\ rows[2].title = JStr(<<"maw'id bidun 'unwan">>)
  /\ rows[1].status = "scheduled"
  /\ rows[2].status = "scheduled"
  /\ rows[1].start_at # rows[2].start_at


(***************************************************************************)
(* Properties of the store                                                 *)
(***************************************************************************)
\* No fetch and no request is under way.
Quiet == fetches = << >> /\ requests = << >>

\* C27: once no fetch and no request is under way, the items of the store
\* are the rows of the backend (every query having been answered without
\* error), whatever the order the answers came in; and loading is true
\* while a fetch is under way.
C27_ItemsFollowBackend ==
  /\ (Quiet /\ ~queryFailed) => items = OrderByStart(rows)
  /\ fetches # << >> => loading

\* Every query was answered without error, nothing is under way, and the
\* items are not the rows: the answer of an earlier fetch came last.
C27_StaleAnswerCameLast ==
  /\ Quiet
  /\ ~queryFailed
  /\ ~loading
  /\ Len(rows) = 1
  /\ items = << >>


\* The step in which the backend rejects an update or a delete.
RejectionStep ==
  /\ Len(requests') < Len(requests)
  /\ settled' # Null
  /\ ~settled'.ok
  /\ settled'.op \in {"update", "delete"}

\* The user is told of a failure: the error text of the edit form or the
\* error modal is set.
FailureShown == editError # Null \/ errorModal # Null

\* C28: when the backend rejects an update or a delete, the items of the
\* store stay as they are and the failure is shown to the user; the edit
\* form is not closed by a rejected update.
C28_RejectionShownAndFormKept ==
  [][RejectionStep =>
       /\ items' = items
       /\ FailureShown'
       /\ (settled'.op = "update" => editTarget' = editTarget)]_vars

\* The update of the edit form was rejected: the form is closed, its flag
\* reset, and neither the error text nor the modal is set.
C28_RejectedUpdateClosesForm ==
  /\ settled # Null
  /\ settled.op = "update"
  /\ ~settled.ok
  /\ requests = << >>
  /\ editForm.title = <<"maw'id", " ", "mu'addal">>
  /\ Len(rows) = 1
  /\ rows[1].title = JStr(<<"fahs", " ", "dawri">>)
  /\ editTarget = Null
  /\ ~editLoading
  /\ editError = Null
  /\ errorModal = Null

\* ---------------------------------------------------------------------------
\* Properties of the reminder loop
\* ---------------------------------------------------------------------------

\* No id is twice in a sequence.
NoRepeat(seq) == \A i, j \in 1..Len(seq) : seq[i] = seq[j] => i = j

\* A scheduled appointment is due at a time: its start lies ahead, within its
\* own reminder window (the global window when it has none).
Due(a, clock, window) ==
  /\ a.status = "scheduled"
  /\ StartOf(a) > clock
  /\ StartOf(a) - clock <= WindowMinutes(a, window) * 60

\* The step plays a tone.
TonePlayed == Len(played') = Len(played) + 1

\* The tone of a step is for an appointment of items that is due at the time
\* of the step, no due appointment of items starts sooner, and the rounded
\* minutes to its start do not exceed the global window.
ToneInTime ==
  LET id == played'[Len(played')]
      window == settings'.reminderWindowMinutes
  IN  \E i \in 1..Len(items') :
        /\ items'[i].id = id
        /\ Due(items'[i], now', window)
        /\ \A j \in 1..Len(items') :
             Due(items'[j], now', window) => StartOf(items'[i]) <= StartOf(items'[j])
        /\ RoundMinutes(StartOf(items'[i]) - now') <= window

NoBlankTag(tags) == \A i \in 1..Len(tags) : Trim(tags[i]) # << >>

\* The step is addTag with the name of a listed tag.
AddsListed == addTag /\ HasTag(settings.tags, Trim(newTag))

\* The step is updateTag of a listed tag to an empty name.
UpdatesToEmpty ==
  \E i \in 1..Len(settings.tags) :
    /\ Trim(Shown(tagEdits, settings.tags[i])) = << >>
    /\ tagEdits' = WithEdit(tagEdits, settings.tags[i], settings.tags[i])
    /\ newTag' = newTag

\* The list after the step is the list before it without one of its tags.
OneTagGone == \E i \in 1..Len(settings.tags) : settings'.tags = Without(settings.tags, i)

\* C30: from a tag list without duplicates, after every addTag, updateTag and
\* removeTag the tag list of the settings has no duplicate and no empty or
\* white-space-only name; addTag of a listed name and updateTag to an empty
\* name leave the list as it is; removeTag takes exactly the named tag away.
C30_TagsDistinctAndNamed ==
  [][/\ NoRepeat(settings'.tags)
     /\ NoBlankTag(settings'.tags)
     /\ (AddsListed => settings'.tags = settings.tags)
     /\ (UpdatesToEmpty => settings'.tags = settings.tags)
     /\ (removeTag => OneTagGone)]_vars

\* updateTag gave the first of two tags the name of the second: the list
\* holds that name twice.
C30_RenamedOntoListedTag ==
  /\ settings.tags = <<<<"usra">>, <<"usra">>>>
  /\ DOMAIN tagEdits = {<<"'amal">>}
  /\ tagEdits[<<"'amal">>] = <<"usra">>

=============================================================================
